---- MODULE Spec2Model ----
(***************************************************************************)
(* Model of the report aggregation of HarvestReports.                      *)
(*                                                                         *)
(* SKUData.__init__ (src/HarvestReports/SKUData.py) folds the tagged       *)
(* report lines of one SKU into a summary object.  The object is the       *)
(* record `self`; the dictionaries of the code are functions whose DOMAIN  *)
(* is the key set of the dictionary.  The constructor is cut into the      *)
(* steps of its control flow: the sort of rawData, one step per report     *)
(* line of the for loop, the version fill-in loop, the string formatting   *)
(* and the legacy percentage.                                              *)
(*                                                                         *)
(* Amounts of money are integers (minor currency units), dates are day     *)
(* ordinals, a float quotient n / d is the pair <<n, d>>, and a version    *)
(* string is the sequence of its characters ("." is 0, digit k is k + 1),  *)
(* compared the way Python compares str.                                   *)
(***************************************************************************)
EXTENDS Integers, Sequences, FiniteSets, TLC

\* the constructor: the list it is handed, the two objects (SKUData.py and the
\* class of harvestReports.py), its position
VARIABLES rawData, self, legacy, pc, idx

\* processDailiesIn: the parsed report files, the lines grouped by SKU, the
\* objects built so far, the SKU being built and its position
VARIABLES salesReportObjects, skuRelatedReportLines, skuData, skuName,
          entryIdx, stage

\* the Rating Merge: the rating aggregates of the apps, as the ratings feed
\* gave them, and how often they were merged into the object
VARIABLES ratings, merges

\* downloadDailies: the report files of the base path by day, the position
\* and the locals of the run, its arguments, the day and the number of the
\* run, and for every day the generator was asked for, the run that asked
\* last and the answer it got
VARIABLES basePath, downloadedFiles, addedPlaceHolderFileForEventlessDay,
          dayOffset, numDaysBack, overwriteExistingData, today, run,
          invoked, position

\* SalesReportFile: the remapping tables, the lines of the report file, the
\* records extracted so far and the position of the parser
VARIABLES fieldRemapper, reportFileContents, data, lineIndex, parsing

constructorVars == <<rawData, self, legacy, pc, idx>>

ratingVars == <<ratings, merges>>

downloadVars == <<basePath, downloadedFiles,
                  addedPlaceHolderFileForEventlessDay, dayOffset, numDaysBack,
                  overwriteExistingData, today, run, invoked, position>>

rollupVars == <<salesReportObjects, skuRelatedReportLines, skuData, skuName,
                entryIdx, stage>>

parserVars == <<fieldRemapper, reportFileContents, data, lineIndex, parsing>>

\* what a step of the constructor leaves alone
outside == <<rollupVars, ratingVars, downloadVars, parserVars>>

vars == <<constructorVars, rollupVars, ratingVars, downloadVars, parserVars>>

\* Longest batch of report lines handed to one constructor call.
MaxLen == 3

(***************************************************************************)
(* Values of the fields of a report line.                                  *)
(***************************************************************************)
None == "<None>"

V10 == <<2, 0, 1>>       \* "1.0"
V11 == <<2, 0, 2>>       \* "1.1"
V110 == <<2, 0, 2, 1>>   \* "1.10"
V12 == <<2, 0, 3>>       \* "1.2"

Sale == "iPhone App"
Update == "Update (iPhone App)"

\* str.strip() on the strings the model uses
strip(s) ==
    CASE s = " " -> ""
      [] s = "" -> ""
      [] s = "appA " -> "appA"
      [] s = " My App" -> "My App"
      [] OTHER -> s

\* len(s) > 0 on the strings the model uses
NonEmpty(s) == s # ""

\* "Update" in reportLine["Product Type Identifier"]
ContainsUpdate(productType) == productType = Update

\* Python's < on two version strings (lexicographic on characters)
RECURSIVE StrLess(_, _)
StrLess(a, b) ==
    IF a = <<>> THEN b # <<>>
    ELSE IF b = <<>> THEN FALSE
    ELSE IF Head(a) # Head(b) THEN Head(a) < Head(b)
    ELSE StrLess(Tail(a), Tail(b))

(***************************************************************************)
(* Dictionary helpers.                                                     *)
(***************************************************************************)
EmptyDict == <<>>

\* d[k] = d.setdefault(k, 0) + n
AddTo(d, k, n) ==
    IF k \in DOMAIN d THEN [d EXCEPT ![k] = @ + n] ELSE d @@ (k :> n)

\* if not k in d: d.update({k : v})
EnsureKey(d, k, v) ==
    IF k \in DOMAIN d THEN d ELSE d @@ (k :> v)

\* d.update({k : v})
Put(d, k, v) ==
    IF k \in DOMAIN d THEN [d EXCEPT ![k] = v] ELSE d @@ (k :> v)

\* d[k] where the reader treats a missing key as 0
Lookup(d, k) == IF k \in DOMAIN d THEN d[k] ELSE 0

RECURSIVE SumOver(_, _)
SumOver(d, keys) ==
    IF keys = {} THEN 0
    ELSE LET k == CHOOSE x \in keys : TRUE
         IN  d[k] + SumOver(d, keys \ {k})

\* sum(d.values())
SumValues(d) == SumOver(d, DOMAIN d)

\* the sum over the outer keys of d[k][c], a missing c counted as 0
RECURSIVE SumInner(_, _, _)
SumInner(d, keys, c) ==
    IF keys = {} THEN 0
    ELSE LET k == CHOOSE x \in keys : TRUE
         IN  Lookup(d[k], c) + SumInner(d, keys \ {k}, c)

(***************************************************************************)
(* SKUData.__init__: the fields set before the loop.  The fields the       *)
(* constructor assigns only after the loop (userRetentionByVersion, the    *)
(* proceeds strings, numOnOldVersions, legacyUserPercentage) hold an empty *)
(* placeholder until the step that assigns them.                           *)
(***************************************************************************)
NewSKUData ==
    [ SKU |-> "Unknown", Name |-> "Unknown", AppId |-> "Unknown",
      unitsByVersion |-> EmptyDict,
      allInstallsTotal |-> 0, paidInstallsTotal |-> 0, freeInstallsTotal |-> 0,
      refundsTotal |-> 0,
      proceedsByVersion |-> EmptyDict, proceedsTotal |-> EmptyDict,
      updatesByVersion |-> EmptyDict, refundsByVersion |-> EmptyDict,
      promoCodesByVersion |-> EmptyDict, promoCodesTotal |-> 0,
      versions |-> <<>>,
      paidInstallsByDate |-> EmptyDict, freeInstallsByDate |-> EmptyDict,
      allInstallsByDate |-> EmptyDict, updatesByDate |-> EmptyDict,
      proceedsByDate |-> EmptyDict,
      paidInstallsByCountry |-> EmptyDict, freeInstallsByCountry |-> EmptyDict,
      allInstallsByCountry |-> EmptyDict,
      newPaidInstallsTotal |-> 0, newFreeInstallsTotal |-> 0,
      newAllInstallsTotal |-> 0, newRefundsTotal |-> 0,
      newProceedsTotal |-> EmptyDict, newUpdatesTotal |-> 0,
      newPromoCodesTotal |-> 0, hasNewData |-> FALSE,
      newPaidInstallsByCountry |-> EmptyDict,
      newFreeInstallsByCountry |-> EmptyDict,
      newAllInstallsByCountry |-> EmptyDict,
      newDataDates |-> <<>>,
      lifetimeAverageRating |-> 0, lifetimeRatingSamples |-> 0,
      numberOfNewRatings |-> 0,
      averageRatingPerVersion |-> EmptyDict,
      numberOfRatingsPerVersion |-> EmptyDict,
      userRetentionByVersion |-> EmptyDict,
      proceedsTotalString |-> <<>>, newProceedsTotalString |-> <<>>,
      proceedsByDateString |-> EmptyDict, proceedsByVersionString |-> EmptyDict,
      numOnOldVersions |-> 0, legacyUserPercentage |-> <<>>,
      Graphs |-> {} ]

\* proceeds = units * proceedsPerItem
Proceeds(line) == line.Units * line.ProceedsPerItem

\* the insertion that puts a line before the lines of its own date
RECURSIVE InsertBeforeEqualDate(_, _)
InsertBeforeEqualDate(sorted, x) ==
    IF sorted = <<>> THEN <<x>>
    ELSE IF x.line.BeginDate <= Head(sorted).line.BeginDate
         THEN <<x>> \o sorted
         ELSE <<Head(sorted)>> \o InsertBeforeEqualDate(Tail(sorted), x)

\* self.rawData.sort(key = lambda x: x[1]["Begin Date"]): list.sort is stable
RECURSIVE InsertByDate(_, _)
InsertByDate(sorted, x) ==
    IF sorted = <<>> THEN <<x>>
    ELSE IF x.line.BeginDate < Head(sorted).line.BeginDate
         THEN <<x>> \o sorted
         ELSE <<Head(sorted)>> \o InsertByDate(Tail(sorted), x)

\* the lines left in the order the report files gave them
KeptInFileOrder(lines) == lines

RECURSIVE SortByBeginDate(_)
SortByBeginDate(lines) ==
    IF lines = <<>> THEN <<>>
    ELSE InsertByDate(SortByBeginDate(SubSeq(lines, 1, Len(lines) - 1)),
                      lines[Len(lines)])

(***************************************************************************)
(* The body of the for loop over rawData, block by block.  Each operator   *)
(* takes the object s, the tag isNewData and the report line, and returns  *)
(* the object after the block.                                             *)
(***************************************************************************)

\* the first non-blank SKU and Apple Identifier; the Title of every line
IdentityFields(s, line) ==
    [s EXCEPT
       !.SKU = IF s.SKU = "Unknown" /\ NonEmpty(strip(line.SKU))
               THEN strip(line.SKU) ELSE @,
       !.AppId = IF s.AppId = "Unknown" /\ NonEmpty(strip(line.AppleIdentifier))
                 THEN strip(line.AppleIdentifier) ELSE @,
       !.Name = strip(line.Title)]

\* a variant of TotalProceeds that tests proceeds != 0, as the per-version
\* and per-date maps do
TotalProceedsNonZero(s, line) ==
    IF Proceeds(line) # 0
    THEN [s EXCEPT !.proceedsTotal =
                      AddTo(@, line.CurrencyCodeOfProceeds, Proceeds(line))]
    ELSE s

\* if proceeds > 0: self.proceedsTotal[currency] += proceeds
TotalProceeds(s, line) ==
    IF Proceeds(line) > 0
    THEN [s EXCEPT !.proceedsTotal =
                      AddTo(@, line.CurrencyCodeOfProceeds, Proceeds(line))]
    ELSE s

\* if isNewData: new proceeds total, hasNewData, newDataDates
NewData(s, isNewData, line) ==
    IF isNewData
    THEN [s EXCEPT
            !.newProceedsTotal =
                IF Proceeds(line) > 0
                THEN AddTo(@, line.CurrencyCodeOfProceeds, Proceeds(line))
                ELSE @,
            !.hasNewData = TRUE,
            !.newDataDates = Append(@, line.BeginDate)]
    ELSE s

\* if not version in self.versions: self.versions.append(version)
RecordVersion(s, line) ==
    IF \E i \in 1..Len(s.versions) : s.versions[i] = line.Version
    THEN s
    ELSE [s EXCEPT !.versions = Append(@, line.Version)]

\* the date recorded in the dictionaries of the installs only
RecordDateOfInstalls(s, line) ==
    [s EXCEPT
       !.allInstallsByDate = EnsureKey(@, line.BeginDate, 0),
       !.paidInstallsByDate = EnsureKey(@, line.BeginDate, 0),
       !.freeInstallsByDate = EnsureKey(@, line.BeginDate, 0),
       !.proceedsByDate = EnsureKey(@, line.BeginDate, EmptyDict)]

\* ensure the date is recorded for all arrays
RecordDate(s, line) ==
    [s EXCEPT
       !.updatesByDate = EnsureKey(@, line.BeginDate, 0),
       !.allInstallsByDate = EnsureKey(@, line.BeginDate, 0),
       !.paidInstallsByDate = EnsureKey(@, line.BeginDate, 0),
       !.freeInstallsByDate = EnsureKey(@, line.BeginDate, 0),
       !.proceedsByDate = EnsureKey(@, line.BeginDate, EmptyDict)]

\* a variant of UpdateLine that stores the units of the line as the updates
\* of the date instead of adding them
UpdateLineOverwritingDate(s, isNewData, line) ==
    [s EXCEPT
       !.updatesByVersion = AddTo(@, line.Version, line.Units),
       !.updatesByDate = Put(@, line.BeginDate, line.Units),
       !.newUpdatesTotal = IF isNewData THEN @ + line.Units ELSE @]

\* the report line is for updates
UpdateLine(s, isNewData, line) ==
    [s EXCEPT
       !.updatesByVersion = AddTo(@, line.Version, line.Units),
       !.updatesByDate = AddTo(@, line.BeginDate, line.Units),
       !.newUpdatesTotal = IF isNewData THEN @ + line.Units ELSE @]

\* the refund counted with the sign of the units
RefundWithSign(s, isNewData, line) ==
    IF line.Units < 0
    THEN [s EXCEPT
            !.refundsByVersion = AddTo(@, line.Version, line.Units),
            !.refundsTotal = @ + line.Units,
            !.newRefundsTotal = IF isNewData THEN @ + line.Units ELSE @]
    ELSE s

\* check if it was a refund
Refund(s, isNewData, line) ==
    IF line.Units < 0
    THEN [s EXCEPT
            !.refundsByVersion = AddTo(@, line.Version, -line.Units),
            !.refundsTotal = @ + (-line.Units),
            !.newRefundsTotal = IF isNewData THEN @ + (-line.Units) ELSE @]
    ELSE s

\* a variant of AllInstalls that leaves refunds out of unitsByVersion
AllInstallsWithoutRefunds(s, line) ==
    [s EXCEPT
       !.allInstallsTotal = @ + line.Units,
       !.unitsByVersion =
           IF line.Units < 0 THEN EnsureKey(@, line.Version, 0)
           ELSE AddTo(@, line.Version, line.Units),
       !.allInstallsByDate = AddTo(@, line.BeginDate, line.Units),
       !.allInstallsByCountry = AddTo(@, line.CountryCode, line.Units)]

\* all installs: total, by version, by date, by country
AllInstalls(s, line) ==
    [s EXCEPT
       !.allInstallsTotal = @ + line.Units,
       !.unitsByVersion = AddTo(@, line.Version, line.Units),
       !.allInstallsByDate = AddTo(@, line.BeginDate, line.Units),
       !.allInstallsByCountry = AddTo(@, line.CountryCode, line.Units)]

\* if proceeds != 0: proceeds by date and by version, per currency
ProceedsByDateAndVersion(s, line) ==
    IF Proceeds(line) # 0
    THEN [s EXCEPT
            !.proceedsByDate =
                LET d == EnsureKey(@, line.BeginDate, EmptyDict)
                IN  [d EXCEPT ![line.BeginDate] =
                        AddTo(@, line.CurrencyCodeOfProceeds, Proceeds(line))],
            !.proceedsByVersion =
                LET d == EnsureKey(@, line.Version, EmptyDict)
                IN  [d EXCEPT ![line.Version] =
                        AddTo(@, line.CurrencyCodeOfProceeds, Proceeds(line))]]
    ELSE s

\* the new installs counted for every line, new or not
NewAllInstallsOfEveryLine(s, isNewData, line) ==
    [s EXCEPT
       !.newAllInstallsTotal = @ + line.Units,
       !.newAllInstallsByCountry = AddTo(@, line.CountryCode, line.Units)]

\* if isNewData: new all installs, total and by country
NewAllInstalls(s, isNewData, line) ==
    IF isNewData
    THEN [s EXCEPT
            !.newAllInstallsTotal = @ + line.Units,
            !.newAllInstallsByCountry = AddTo(@, line.CountryCode, line.Units)]
    ELSE s

\* promo codes counted for the free installs only
PromoCodesOfFreeInstalls(s, isNewData, line) ==
    IF line.PromoCode # None /\ NonEmpty(line.PromoCode) /\ Proceeds(line) = 0
    THEN [s EXCEPT
            !.promoCodesTotal = @ + line.Units,
            !.promoCodesByVersion = AddTo(@, line.Version, line.Units),
            !.newPromoCodesTotal = IF isNewData THEN @ + line.Units ELSE @]
    ELSE s

\* record the count of promo codes used
PromoCodes(s, isNewData, line) ==
    IF line.PromoCode # None /\ NonEmpty(line.PromoCode)
    THEN [s EXCEPT
            !.promoCodesTotal = @ + line.Units,
            !.promoCodesByVersion = AddTo(@, line.Version, line.Units),
            !.newPromoCodesTotal = IF isNewData THEN @ + line.Units ELSE @]
    ELSE s

\* was this a sale?  (if proceeds != 0)
IsPaid(line) == Proceeds(line) # 0

\* refunds left out of the paid and the free installs
PaidOrFreeWithoutRefunds(s, isNewData, line) ==
    IF line.Units < 0 THEN s
    ELSE IF IsPaid(line)
    THEN [s EXCEPT
            !.paidInstallsTotal = @ + line.Units,
            !.paidInstallsByDate = AddTo(@, line.BeginDate, line.Units),
            !.paidInstallsByCountry = AddTo(@, line.CountryCode, line.Units),
            !.newPaidInstallsTotal = IF isNewData THEN @ + line.Units ELSE @,
            !.newPaidInstallsByCountry =
                IF isNewData THEN AddTo(@, line.CountryCode, line.Units) ELSE @]
    ELSE [s EXCEPT
            !.freeInstallsTotal = @ + line.Units,
            !.freeInstallsByDate = AddTo(@, line.BeginDate, line.Units),
            !.freeInstallsByCountry = AddTo(@, line.CountryCode, line.Units),
            !.newFreeInstallsTotal = IF isNewData THEN @ + line.Units ELSE @,
            !.newFreeInstallsByCountry =
                IF isNewData THEN AddTo(@, line.CountryCode, line.Units) ELSE @]

\* the paid buckets, or otherwise the free buckets
PaidOrFree(s, isNewData, line) ==
    IF IsPaid(line)
    THEN [s EXCEPT
            !.paidInstallsTotal = @ + line.Units,
            !.paidInstallsByDate = AddTo(@, line.BeginDate, line.Units),
            !.paidInstallsByCountry = AddTo(@, line.CountryCode, line.Units),
            !.newPaidInstallsTotal = IF isNewData THEN @ + line.Units ELSE @,
            !.newPaidInstallsByCountry =
                IF isNewData THEN AddTo(@, line.CountryCode, line.Units) ELSE @]
    ELSE [s EXCEPT
            !.freeInstallsTotal = @ + line.Units,
            !.freeInstallsByDate = AddTo(@, line.BeginDate, line.Units),
            !.freeInstallsByCountry = AddTo(@, line.CountryCode, line.Units),
            !.newFreeInstallsTotal = IF isNewData THEN @ + line.Units ELSE @,
            !.newFreeInstallsByCountry =
                IF isNewData THEN AddTo(@, line.CountryCode, line.Units) ELSE @]

\* the report line is for sales or refunds
SaleLine(s, isNewData, line) ==
    PaidOrFree(
      PromoCodes(
        NewAllInstalls(
          ProceedsByDateAndVersion(
            AllInstalls(Refund(s, isNewData, line), line),
            line),
          isNewData, line),
        isNewData, line),
      isNewData, line)

\* one iteration of the for loop
ProcessLine(s, isNewData, line) ==
    LET recorded ==
            RecordDate(
              RecordVersion(
                NewData(TotalProceeds(IdentityFields(s, line), line),
                        isNewData, line),
                line),
              line)
    IN  IF ContainsUpdate(line.ProductTypeIdentifier)
        THEN UpdateLine(recorded, isNewData, line)
        ELSE SaleLine(recorded, isNewData, line)

\* None.strip() raises where the `and` of lines 99 and 101 evaluates it (the
\* field of the object is still "Unknown") and at line 104 always, and so
\* does "Update" in None
LineRaises(s, line) ==
    \/ s.SKU = "Unknown" /\ line.SKU = None
    \/ s.AppId = "Unknown" /\ line.AppleIdentifier = None
    \/ line.Title = None
    \/ line.ProductTypeIdentifier = None

(***************************************************************************)
(* After the loop.                                                         *)
(***************************************************************************)

\* the versions sorted as version numbers: a shorter string first
SortVersionsAsNumbers(versions) ==
    SortSeq(versions,
            LAMBDA a, b : Len(a) < Len(b) \/ (Len(a) = Len(b) /\ StrLess(a, b)))

\* self.versions.sort()
SortVersions(versions) == SortSeq(versions, StrLess)

\* float(n) / float(d); the quotient with d = 0 is the one Python raises on
Quotient(n, d) == <<n, d>>

\* a variant of HasPreviousUsers that tests numPreviousVersion != 0
HasPreviousUsersNonZero(numPreviousVersion) == numPreviousVersion # 0

\* if numPreviousVersion > 0
HasPreviousUsers(numPreviousVersion) == numPreviousVersion > 0

\* a variant of FillVersion that does not fill in refundsByVersion (the
\* dictionary the older class does not have)
FillVersionWithoutRefunds(s, version) ==
    [s EXCEPT
       !.unitsByVersion = EnsureKey(@, version, 0),
       !.updatesByVersion = EnsureKey(@, version, 0),
       !.proceedsByVersion = EnsureKey(@, version, EmptyDict),
       !.promoCodesByVersion = EnsureKey(@, version, 0),
       !.averageRatingPerVersion = EnsureKey(@, version, 0),
       !.numberOfRatingsPerVersion = EnsureKey(@, version, 0)]

\* the fill-in without the two rating dictionaries
FillVersionWithoutRatings(s, version) ==
    [s EXCEPT
       !.unitsByVersion = EnsureKey(@, version, 0),
       !.updatesByVersion = EnsureKey(@, version, 0),
       !.refundsByVersion = EnsureKey(@, version, 0),
       !.proceedsByVersion = EnsureKey(@, version, EmptyDict),
       !.promoCodesByVersion = EnsureKey(@, version, 0)]

\* fill in any missing version data (one version of the loop)
FillVersion(s, version) ==
    [s EXCEPT
       !.unitsByVersion = EnsureKey(@, version, 0),
       !.updatesByVersion = EnsureKey(@, version, 0),
       !.refundsByVersion = EnsureKey(@, version, 0),
       !.proceedsByVersion = EnsureKey(@, version, EmptyDict),
       !.promoCodesByVersion = EnsureKey(@, version, 0),
       !.averageRatingPerVersion = EnsureKey(@, version, 0),
       !.numberOfRatingsPerVersion = EnsureKey(@, version, 0)]

\* a variant of Retention that counts the units of the version itself among
\* the previous ones (numPreviousVersion advanced before the division)
RetentionWithOwnUnits(s, version, numPreviousVersion) ==
    IF HasPreviousUsers(numPreviousVersion)
    THEN [s EXCEPT !.userRetentionByVersion =
                      Put(@, version,
                          Quotient(s.updatesByVersion[version],
                                   numPreviousVersion + s.unitsByVersion[version]))]
    ELSE s

\* proportionRetained of one version, given the units of the earlier ones
Retention(s, version, numPreviousVersion) ==
    IF HasPreviousUsers(numPreviousVersion)
    THEN [s EXCEPT !.userRetentionByVersion =
                      Put(@, version,
                          Quotient(s.updatesByVersion[version], numPreviousVersion))]
    ELSE s

\* the loop over self.versions, from position i with numPreviousVersion
RECURSIVE FillVersionsFrom(_, _, _)
FillVersionsFrom(s, i, numPreviousVersion) ==
    IF i > Len(s.versions) THEN s
    ELSE LET version == s.versions[i]
             filled == FillVersion(s, version)
         IN  FillVersionsFrom(Retention(filled, version, numPreviousVersion),
                              i + 1,
                              numPreviousVersion + filled.unitsByVersion[version])

\* lines 212-238: sort the versions, fill them in, derive the retention
FillVersions(s) ==
    FillVersionsFrom([s EXCEPT !.versions = SortVersions(@),
                               !.userRetentionByVersion = EmptyDict],
                     1, 0)

\* the loop divided by zero
RetentionRaises(s) ==
    \E v \in DOMAIN s.userRetentionByVersion :
        s.userRetentionByVersion[v][2] = 0

\* d.keys(): the keys of a dictionary in the order the dictionary yields them
RECURSIVE KeysOf(_)
KeysOf(keys) ==
    IF keys = {} THEN <<>>
    ELSE LET k == CHOOSE x \in keys : TRUE
         IN  <<k>> \o KeysOf(keys \ {k})

\* "{amount} {code}" of every currency, joined by ", "
FormatProceeds(d) ==
    LET codes == KeysOf(DOMAIN d)
    IN  [i \in 1..Len(codes) |-> <<d[codes[i]], codes[i]>>]

\* lines 240-272: the four proceeds strings
FormatStrings(s) ==
    [s EXCEPT
       !.proceedsTotalString = FormatProceeds(s.proceedsTotal),
       !.newProceedsTotalString = FormatProceeds(s.newProceedsTotal),
       !.proceedsByDateString =
           [date \in DOMAIN s.proceedsByDate |->
               FormatProceeds(s.proceedsByDate[date])],
       !.proceedsByVersionString =
           [version \in DOMAIN s.proceedsByVersion |->
               FormatProceeds(s.proceedsByVersion[version])]]

\* self.versions[len(self.versions) - 1]
LatestVersion(s) == s.versions[Len(s.versions)]

\* the number on old versions, the updates of the latest version forgotten
NumOnOldVersionsWithoutUpdates(s) ==
    s.allInstallsTotal - s.unitsByVersion[LatestVersion(s)]

\* calculate the number on old versions
NumOnOldVersions(s) ==
    s.allInstallsTotal - s.updatesByVersion[LatestVersion(s)]
                       - s.unitsByVersion[LatestVersion(s)]

\* lines 274-278
LegacyPercentage(s) ==
    [s EXCEPT
       !.numOnOldVersions = NumOnOldVersions(s),
       !.legacyUserPercentage =
           Quotient(100 * NumOnOldVersions(s), s.allInstallsTotal)]

\* 100.0 * self.numOnOldVersions / self.allInstallsTotal divides by zero
LegacyRaises(s) == s.allInstallsTotal = 0

\* getEmailSummary_HTML, printNewData: the first and the last date of the
\* new data, newDataDates[0] and newDataDates[-1]
NewDataDateRange(s) == <<s.newDataDates[1], s.newDataDates[Len(s.newDataDates)]>>

\* generateGraphs: the keys it adds to self.Graphs
GenerateGraphs(s) ==
    [s EXCEPT !.Graphs =
        {<<"AllInstallsAndUpdates">>, <<"PaidInstallsByCountry">>,
         <<"FreeInstallsByCountry">>, <<"AllInstallsByCountry">>}
        \cup (IF s.hasNewData /\ DOMAIN s.newPaidInstallsByCountry # {}
              THEN {<<"NewPaidInstallsByCountry">>} ELSE {})
        \cup (IF s.hasNewData /\ DOMAIN s.newFreeInstallsByCountry # {}
              THEN {<<"NewFreeInstallsByCountry">>} ELSE {})
        \cup (IF s.hasNewData /\ DOMAIN s.newAllInstallsByCountry # {}
              THEN {<<"NewAllInstallsByCountry">>} ELSE {})
        \cup {<<"Proceeds", code>> : code \in DOMAIN s.proceedsTotal}]

(***************************************************************************)
(* The SKUData class of harvestReports.py, the one processDailiesIn of     *)
(* that file instantiates.  Its object is the record `legacy`; it keeps    *)
(* proceeds as plain numbers, not per currency.                            *)
(***************************************************************************)
HRNewSKUData ==
    [ SKU |-> "Unknown", Name |-> "Unknown",
      unitsByVersion |-> EmptyDict,
      allInstallsTotal |-> 0, paidInstallsTotal |-> 0, freeInstallsTotal |-> 0,
      proceedsByVersion |-> EmptyDict, proceedsTotal |-> 0,
      updatesByVersion |-> EmptyDict,
      promoCodesByVersion |-> EmptyDict, promoCodesTotal |-> 0,
      versions |-> <<>>,
      paidInstallsByDate |-> EmptyDict, freeInstallsByDate |-> EmptyDict,
      allInstallsByDate |-> EmptyDict, updatesByDate |-> EmptyDict,
      proceedsByDate |-> EmptyDict,
      paidInstallsByCountry |-> EmptyDict, freeInstallsByCountry |-> EmptyDict,
      allInstallsByCountry |-> EmptyDict,
      newPaidInstallsTotal |-> 0, newFreeInstallsTotal |-> 0,
      newAllInstallsTotal |-> 0, newProceedsTotal |-> 0,
      newUpdatesTotal |-> 0, newPromoCodesTotal |-> 0, hasNewData |-> FALSE,
      newPaidInstallsByCountry |-> EmptyDict,
      newFreeInstallsByCountry |-> EmptyDict,
      newAllInstallsByCountry |-> EmptyDict,
      userRetentionByVersion |-> EmptyDict,
      numOnOldVersions |-> 0, legacyUserPercentage |-> <<>> ]

\* lines 208-224: identity, proceeds totals, hasNewData
HRHeader(s, isNewData, line) ==
    [s EXCEPT
       !.SKU = IF s.SKU = "Unknown" /\ NonEmpty(strip(line.SKU))
               THEN line.SKU ELSE @,
       !.Name = IF s.Name = "Unknown" /\ NonEmpty(strip(line.Title))
                THEN line.Title ELSE @,
       !.proceedsTotal = @ + Proceeds(line),
       !.newProceedsTotal = IF isNewData THEN @ + Proceeds(line) ELSE @,
       !.hasNewData = IF isNewData THEN TRUE ELSE @]

\* lines 226-242: record the version and the date
HRRecordKeys(s, line) ==
    [s EXCEPT
       !.versions = IF \E i \in 1..Len(@) : @[i] = line.Version
                    THEN @ ELSE Append(@, line.Version),
       !.updatesByDate = EnsureKey(@, line.BeginDate, 0),
       !.allInstallsByDate = EnsureKey(@, line.BeginDate, 0),
       !.paidInstallsByDate = EnsureKey(@, line.BeginDate, 0),
       !.freeInstallsByDate = EnsureKey(@, line.BeginDate, 0),
       !.proceedsByDate = EnsureKey(@, line.BeginDate, 0)]

\* lines 245-257: the report line is for updates
HRUpdateLine(s, isNewData, line) ==
    [s EXCEPT
       !.updatesByVersion = AddTo(@, line.Version, line.Units),
       !.updatesByDate = AddTo(@, line.BeginDate, line.Units),
       !.newUpdatesTotal = IF isNewData THEN @ + line.Units ELSE @]

\* lines 259-307: all installs, proceeds, promo codes
HRInstalls(s, isNewData, line) ==
    LET promo == line.PromoCode # None /\ NonEmpty(line.PromoCode)
    IN  [s EXCEPT
          !.allInstallsTotal = @ + line.Units,
          !.unitsByVersion = AddTo(@, line.Version, line.Units),
          !.allInstallsByDate = AddTo(@, line.BeginDate, line.Units),
          !.proceedsByDate = AddTo(@, line.BeginDate, Proceeds(line)),
          !.allInstallsByCountry = AddTo(@, line.CountryCode, line.Units),
          !.newAllInstallsTotal = IF isNewData THEN @ + line.Units ELSE @,
          !.newAllInstallsByCountry =
              IF isNewData THEN AddTo(@, line.CountryCode, line.Units) ELSE @,
          !.proceedsByVersion = AddTo(@, line.Version, Proceeds(line)),
          !.promoCodesTotal = IF promo THEN @ + line.Units ELSE @,
          !.promoCodesByVersion =
              IF promo THEN AddTo(@, line.Version, line.Units) ELSE @,
          !.newPromoCodesTotal =
              IF promo /\ isNewData THEN @ + line.Units ELSE @]

\* line 310: was this a sale?  (if proceeds > 0)
HRIsPaid(line) == Proceeds(line) > 0

\* lines 310-351: the paid buckets, or otherwise the free buckets
HRPaidOrFree(s, isNewData, line) ==
    IF HRIsPaid(line)
    THEN [s EXCEPT
            !.paidInstallsTotal = @ + line.Units,
            !.paidInstallsByDate = AddTo(@, line.BeginDate, line.Units),
            !.paidInstallsByCountry = AddTo(@, line.CountryCode, line.Units),
            !.newPaidInstallsTotal = IF isNewData THEN @ + line.Units ELSE @,
            !.newPaidInstallsByCountry =
                IF isNewData THEN AddTo(@, line.CountryCode, line.Units) ELSE @]
    ELSE [s EXCEPT
            !.freeInstallsTotal = @ + line.Units,
            !.freeInstallsByDate = AddTo(@, line.BeginDate, line.Units),
            !.freeInstallsByCountry = AddTo(@, line.CountryCode, line.Units),
            !.newFreeInstallsTotal = IF isNewData THEN @ + line.Units ELSE @,
            !.newFreeInstallsByCountry =
                IF isNewData THEN AddTo(@, line.CountryCode, line.Units) ELSE @]

\* one iteration of the for loop of harvestReports.py
HRProcessLine(s, isNewData, line) ==
    LET recorded == HRRecordKeys(HRHeader(s, isNewData, line), line)
    IN  IF ContainsUpdate(line.ProductTypeIdentifier)
        THEN HRUpdateLine(recorded, isNewData, line)
        ELSE HRPaidOrFree(HRInstalls(recorded, isNewData, line), isNewData, line)

\* lines 358-372: the loop over self.versions
RECURSIVE HRFillVersionsFrom(_, _, _)
HRFillVersionsFrom(s, i, numPreviousVersion) ==
    IF i > Len(s.versions) THEN s
    ELSE LET version == s.versions[i]
             filled == [s EXCEPT
                          !.unitsByVersion = EnsureKey(@, version, 0),
                          !.updatesByVersion = EnsureKey(@, version, 0),
                          !.proceedsByVersion = EnsureKey(@, version, 0),
                          !.promoCodesByVersion = EnsureKey(@, version, 0)]
             retained ==
                 IF numPreviousVersion > 0
                 THEN [filled EXCEPT !.userRetentionByVersion =
                          Put(@, version,
                              Quotient(filled.updatesByVersion[version],
                                       numPreviousVersion))]
                 ELSE filled
         IN  HRFillVersionsFrom(retained, i + 1,
                                numPreviousVersion + filled.unitsByVersion[version])

\* lines 353-372
HRFillVersions(s) ==
    HRFillVersionsFrom([s EXCEPT !.versions = SortVersions(@)], 1, 0)

\* lines 375-378
HRLegacyPercentage(s) ==
    [s EXCEPT
       !.numOnOldVersions = NumOnOldVersions(s),
       !.legacyUserPercentage =
           Quotient(100 * NumOnOldVersions(s), s.allInstallsTotal)]

(***************************************************************************)
(* The report lines of the model.  A line has the fields SalesReportFile   *)
(* gives it; a report file is one day, and isNewData is the flag of the    *)
(* file the line came from.                                                *)
(***************************************************************************)
ReportLine(version, units, proceedsPerItem, region, date, type, promo) ==
    [ SKU |-> "appA", AppleIdentifier |-> "1001", Title |-> "My App",
      BeginDate |-> date, Version |-> version, Units |-> units,
      ProceedsPerItem |-> proceedsPerItem,
      CurrencyCodeOfProceeds |-> region[2], CountryCode |-> region[1],
      ProductTypeIdentifier |-> type, PromoCode |-> promo ]

US == <<"US", "USD">>
GB == <<"GB", "GBP">>

\* [isNewData, reportLine] for every combination of the given field values
TaggedLines(news, versions, units, prices, regions, dates, types, promos) ==
    { [isNewData |-> n, line |-> ReportLine(v, u, p, r, d, t, c)] :
        n \in news, v \in versions, u \in units, p \in prices,
        r \in regions, d \in dates, t \in types, c \in promos }

\* the non-empty lists of at most MaxLen tagged lines
Batches(pool) == UNION { [1..n -> pool] : n \in 1..MaxLen }

\* installs, refunds and updates of three versions; the report of day 2,
\* the newly downloaded one, is the one that holds version 1.2
VersionLines ==
    TaggedLines({FALSE}, {V10, V11}, {-1, 2}, {0}, {US}, {1},
                {Sale, Update}, {None})
    \cup TaggedLines({TRUE}, {V12}, {-1, 2}, {0}, {US}, {2},
                     {Sale, Update}, {None})

\* two versions with every kind of activity: paid sales and refunds, free
\* promo-code installs and their refunds, updates
DenseLines ==
    TaggedLines({FALSE}, {V10, V11}, {-1, 1}, {1}, {US}, {1}, {Sale}, {None})
    \cup TaggedLines({FALSE}, {V10, V11}, {-1, 1}, {0}, {US}, {1}, {Sale},
                     {"PROMO"})
    \cup TaggedLines({FALSE}, {V10, V11}, {1}, {0}, {US}, {1}, {Update}, {None})

\* paid, free and refunded lines, old and new, in two currencies, and
\* update lines that carry a price
ProceedsLines ==
    TaggedLines({FALSE, TRUE}, {V10}, {-1, 1}, {0, 1}, {US}, {1}, {Sale},
                {None})
    \cup TaggedLines({FALSE, TRUE}, {V10}, {1}, {1}, {GB}, {1}, {Sale}, {None})
    \cup TaggedLines({FALSE, TRUE}, {V10}, {1}, {1}, {US}, {1}, {Update},
                     {None})

\* a line of SKU "appA" with the given Title and Apple Identifier
IdentityLine(title, appleIdentifier, date) ==
    [isNewData |-> FALSE,
     line |-> [ReportLine(V10, 1, 0, US, date, Sale, None) EXCEPT
                 !.Title = title, !.AppleIdentifier = appleIdentifier]]

\* lines of two days whose Title is blank or one of two names, whose Apple
\* Identifier is blank or one of two numbers, and lines cut short before
\* the Apple Identifier column, which SalesReportFile pads with None
IdentityLines ==
    { IdentityLine(t, "1001", d) : t \in {"", "My App", "My App HD"},
                                   d \in {1, 2} }
    \cup { IdentityLine("My App", a, d) : a \in {"", "1002", None},
                                          d \in {1, 2} }

\* installs and updates of versions 1.0, 1.10 and 1.2, reported on two days
OrderLines ==
    TaggedLines({FALSE}, {V10, V110, V12}, {1}, {0}, {US}, {1, 2},
                {Sale, Update}, {None})

\* installs and refunds of two versions, old and new, and update lines
\* with negative units
RefundLines ==
    TaggedLines({FALSE, TRUE}, {V10, V11}, {-2, 1}, {0}, {US}, {1}, {Sale},
                {None})
    \cup TaggedLines({TRUE}, {V10, V11}, {-2}, {0}, {US}, {1}, {Update},
                     {None})

\* paid and free installs, old and new, with no promo code, with an empty
\* one and with a promo code
PromoLines ==
    TaggedLines({FALSE, TRUE}, {V10}, {2}, {0, 1}, {US}, {1}, {Sale},
                {None, "", "PROMO"})

\* every kind of line, once tagged old and once tagged new: a paid sale, a
\* free install, a refund, a promo-code install, a priced update, and a
\* paid sale of another country
NewLines ==
    TaggedLines({FALSE, TRUE}, {V10}, {2}, {1}, {US, GB}, {1}, {Sale}, {None})
    \cup TaggedLines({FALSE, TRUE}, {V10}, {-1}, {1}, {US}, {1}, {Sale}, {None})
    \cup TaggedLines({FALSE, TRUE}, {V10}, {1}, {0}, {US}, {1}, {Sale},
                     {None, "PROMO"})
    \cup TaggedLines({FALSE, TRUE}, {V10}, {1}, {1}, {US}, {1}, {Update},
                     {None})

\* paid installs and updates of three days, old and new
DateLines ==
    TaggedLines({FALSE, TRUE}, {V10}, {1}, {1}, {US}, {1, 2, 3},
                {Sale, Update}, {None})

(***************************************************************************)
(* The constructor as a state machine.                                     *)
(***************************************************************************)
\* processDailiesIn is not running
NoRollup ==
    /\ salesReportObjects = <<>>
    /\ skuRelatedReportLines = EmptyDict
    /\ skuData = EmptyDict
    /\ skuName = None
    /\ entryIdx = 0
    /\ stage = "idle"

\* no rating aggregate is at hand
NoRatings ==
    /\ ratings = EmptyDict
    /\ merges = 0

\* downloadDailies is not running
NoDownload ==
    /\ basePath = EmptyDict
    /\ downloadedFiles = <<>>
    /\ addedPlaceHolderFileForEventlessDay = FALSE
    /\ dayOffset = 0
    /\ numDaysBack = 0
    /\ overwriteExistingData = FALSE
    /\ today = 0
    /\ run = 0
    /\ invoked = <<>>
    /\ position = "idle"

\* no report file is being parsed
NoParser ==
    /\ fieldRemapper = EmptyDict
    /\ reportFileContents = <<>>
    /\ data = <<>>
    /\ lineIndex = 0
    /\ parsing = "idle"

\* the entry of the constructor with a batch of the pool
InitConstructor(pool) ==
    /\ rawData \in Batches(pool)
    /\ self = NewSKUData
    /\ legacy = HRNewSKUData
    /\ pc = "sort"
    /\ idx = 0

\* one constructor call on a batch of the pool
InitWith(pool) ==
    /\ InitConstructor(pool)
    /\ NoRollup
    /\ NoRatings
    /\ NoDownload
    /\ NoParser

Init == InitWith(VersionLines)

InitDense == InitWith(DenseLines)

InitProceeds == InitWith(ProceedsLines)

InitIdentity == InitWith(IdentityLines)

InitOrder == InitWith(OrderLines)

InitRefund == InitWith(RefundLines)

InitPromo == InitWith(PromoLines)

InitNew == InitWith(NewLines)

InitDate == InitWith(DateLines)

\* self.rawData.sort(key = lambda x: x[1]["Begin Date"])
SortRawData ==
    /\ pc = "sort"
    /\ rawData' = SortByBeginDate(rawData)
    /\ pc' = "loop"
    /\ idx' = 1
    /\ UNCHANGED <<self, legacy, outside>>

\* for [isNewData, reportLine] in self.rawData
Loop ==
    /\ pc = "loop"
    /\ LET isNewData == rawData[idx].isNewData
           line == rawData[idx].line
       IN  IF LineRaises(self, line)
           THEN /\ pc' = "failed"
                /\ UNCHANGED <<self, legacy, idx>>
           ELSE /\ self' = ProcessLine(self, isNewData, line)
                /\ legacy' = HRProcessLine(legacy, isNewData, line)
                /\ idx' = idx + 1
                /\ pc' = IF idx = Len(rawData) THEN "versions" ELSE "loop"
    /\ UNCHANGED <<rawData, outside>>

\* self.versions.sort() and the fill-in loop
Versions ==
    /\ pc = "versions"
    /\ self' = FillVersions(self)
    /\ legacy' = HRFillVersions(legacy)
    /\ pc' = IF RetentionRaises(self') THEN "failed" ELSE "strings"
    /\ UNCHANGED <<rawData, idx, outside>>

\* the proceeds strings
Strings ==
    /\ pc = "strings"
    /\ self' = FormatStrings(self)
    /\ pc' = "legacy"
    /\ UNCHANGED <<rawData, legacy, idx, outside>>

\* the legacy percentage and the graphs; the object is complete after it
Finish ==
    /\ pc = "legacy"
    /\ IF LegacyRaises(self)
       THEN /\ pc' = "failed"
            /\ UNCHANGED <<self, legacy>>
       ELSE /\ self' = GenerateGraphs(LegacyPercentage(self))
            /\ legacy' = HRLegacyPercentage(legacy)
            /\ pc' = "done"
    /\ UNCHANGED <<rawData, idx, outside>>

Next == SortRawData \/ Loop \/ Versions \/ Strings \/ Finish

Spec == Init /\ [][Next]_vars

SpecDense == InitDense /\ [][Next]_vars

SpecProceeds == InitProceeds /\ [][Next]_vars

SpecIdentity == InitIdentity /\ [][Next]_vars

SpecOrder == InitOrder /\ [][Next]_vars

SpecRefund == InitRefund /\ [][Next]_vars

SpecPromo == InitPromo /\ [][Next]_vars

SpecNew == InitNew /\ [][Next]_vars

SpecDate == InitDate /\ [][Next]_vars

(***************************************************************************)
(* processDailiesIn of harvestReports.py: the lines of the parsed report   *)
(* files are grouped by SKU and one object is built per SKU.  The          *)
(* constructor steps above run between StartSKU and StoreSKU.              *)
(***************************************************************************)

\* a parsed report file: SalesReportFile.isNewFile and SalesReportFile.data
File(isNewFile, records) == [isNewFile |-> isNewFile, data |-> records]

\* a line of the given SKU
SkuLine(sku, units, type, date) ==
    [ReportLine(V10, units, 1, US, date, type, None) EXCEPT !.SKU = sku]

\* the report files a base path may hold: the empty placeholder of a day
\* without reports, old files of day 1 and newly downloaded files of days
\* 2 and 3, with lines of two SKUs
FilePool ==
    { File(FALSE, <<>>),
      File(FALSE, <<SkuLine("appA", 2, Sale, 1)>>),
      File(FALSE, <<SkuLine("appB", 1, Sale, 1), SkuLine("appA", 1, Update, 1)>>),
      File(FALSE, <<SkuLine("appB", 1, Update, 1)>>),
      File(TRUE, <<SkuLine("appA", 1, Sale, 2), SkuLine("appB", 2, Sale, 2)>>),
      File(TRUE, <<SkuLine("appB", -1, Sale, 2)>>),
      File(TRUE, <<SkuLine("appA", 1, Sale, 3)>>) }

\* os.listdir: at most MaxLen different files, in any order
Listings ==
    UNION { { files \in [1..n -> FilePool] :
                \A i, j \in 1..n : files[i] = files[j] => i = j } :
            n \in 1..MaxLen }

\* for salesReportObject in salesReportObjects: for reportEntry in
\* salesReportObject.data, as one list of [isNewFile, reportEntry]
RECURSIVE ReportEntries(_)
ReportEntries(files) ==
    IF files = <<>> THEN <<>>
    ELSE [i \in 1..Len(Head(files).data) |->
             [isNewData |-> Head(files).isNewFile, line |-> Head(files).data[i]]]
         \o ReportEntries(Tail(files))

\* the entry replaces the list of its SKU
GroupEntryKeepingTheLast(groups, entry) ==
    Put(groups, entry.line.SKU, <<entry>>)

\* lines 666-672: the entry starts the list of its SKU or is appended to it
GroupEntry(groups, entry) ==
    IF entry.line.SKU \notin DOMAIN groups
    THEN Put(groups, entry.line.SKU, <<entry>>)
    ELSE Put(groups, entry.line.SKU, Append(groups[entry.line.SKU], entry))

InitRollup ==
    /\ salesReportObjects \in Listings
    /\ skuRelatedReportLines = EmptyDict
    /\ skuData = EmptyDict
    /\ skuName = None
    /\ entryIdx = 1
    /\ stage = "group"
    /\ rawData = <<>>
    /\ self = NewSKUData
    /\ legacy = HRNewSKUData
    /\ pc = "idle"
    /\ idx = 0
    /\ NoRatings
    /\ NoDownload
    /\ NoParser

\* one report entry of the grouping loop
Group ==
    /\ stage = "group"
    /\ entryIdx <= Len(ReportEntries(salesReportObjects))
    /\ skuRelatedReportLines' =
           GroupEntry(skuRelatedReportLines,
                      ReportEntries(salesReportObjects)[entryIdx])
    /\ entryIdx' = entryIdx + 1
    /\ UNCHANGED <<ratingVars, downloadVars, parserVars>>
    /\ UNCHANGED <<salesReportObjects, skuData, skuName, stage, constructorVars>>

\* skuData = dict(); skuNames = skuRelatedReportLines.keys()
Grouped ==
    /\ stage = "group"
    /\ entryIdx > Len(ReportEntries(salesReportObjects))
    /\ skuData' = EmptyDict
    /\ stage' = "build"
    /\ UNCHANGED <<ratingVars, downloadVars, parserVars>>
    /\ UNCHANGED <<salesReportObjects, skuRelatedReportLines, skuName,
                   entryIdx, constructorVars>>

\* the constructor runs on the object of the SKU built before
StartSKUOnTheSameObject ==
    /\ stage = "build"
    /\ \E name \in DOMAIN skuRelatedReportLines \ DOMAIN skuData :
           /\ skuName' = name
           /\ rawData' = skuRelatedReportLines[name]
    /\ pc' = "sort"
    /\ idx' = 0
    /\ stage' = "constructing"
    /\ UNCHANGED <<ratingVars, downloadVars, parserVars>>
    /\ UNCHANGED <<salesReportObjects, skuRelatedReportLines, skuData,
                   entryIdx, self, legacy>>

\* for skuName in skuNames: SKUData(basePath, skuRelatedReportLines[skuName],
\* fieldRemapper) makes a new object and enters __init__; the keys of a
\* dictionary come in no particular order
StartSKU ==
    /\ stage = "build"
    /\ \E name \in DOMAIN skuRelatedReportLines \ DOMAIN skuData :
           /\ skuName' = name
           /\ rawData' = skuRelatedReportLines[name]
    /\ self' = NewSKUData
    /\ legacy' = HRNewSKUData
    /\ pc' = "sort"
    /\ idx' = 0
    /\ stage' = "constructing"
    /\ UNCHANGED <<ratingVars, downloadVars, parserVars>>
    /\ UNCHANGED <<salesReportObjects, skuRelatedReportLines, skuData, entryIdx>>

\* skuData.update({skuName : skuSummary}); self.rawData is the list the
\* constructor was handed, so the caller's list is the sorted one
StoreSKU ==
    /\ stage = "constructing"
    /\ pc = "done"
    /\ skuData' = Put(skuData, skuName,
                      [rawData |-> rawData, self |-> self, legacy |-> legacy])
    /\ skuRelatedReportLines' = Put(skuRelatedReportLines, skuName, rawData)
    /\ stage' = "build"
    /\ pc' = "idle"
    /\ UNCHANGED <<ratingVars, downloadVars, parserVars>>
    /\ UNCHANGED <<salesReportObjects, skuName, entryIdx, rawData, self,
                   legacy, idx>>

\* the constructor raised: processDailiesIn does not catch it
Raised ==
    /\ stage = "constructing"
    /\ pc = "failed"
    /\ stage' = "raised"
    /\ UNCHANGED <<ratingVars, downloadVars, parserVars>>
    /\ UNCHANGED <<salesReportObjects, skuRelatedReportLines, skuData, skuName,
                   entryIdx, constructorVars>>

\* every SKU is built: return skuData
Return ==
    /\ stage = "build"
    /\ DOMAIN skuData = DOMAIN skuRelatedReportLines
    /\ stage' = "returned"
    /\ UNCHANGED <<ratingVars, downloadVars, parserVars>>
    /\ UNCHANGED <<salesReportObjects, skuRelatedReportLines, skuData, skuName,
                   entryIdx, constructorVars>>

NextRollup ==
    \/ Group \/ Grouped \/ StartSKU \/ StoreSKU \/ Raised \/ Return
    \/ SortRawData \/ Loop \/ Versions \/ Strings \/ Finish

SpecRollup == InitRollup /\ [][NextRollup]_vars

(***************************************************************************)
(* The Rating Merge.  Its code is not part of SKUData.py, which only sets  *)
(* the five rating fields to zero ("these will be populated later");       *)
(* Common.RatingsSummaryFields names the five parts of a rating aggregate. *)
(* The merge is modelled from its contract: the aggregate of the app of    *)
(* the object, if the feed has one, is laid over the rating fields, and of *)
(* its per-version values only those of versions the object knows.         *)
(***************************************************************************)

\* a rating aggregate, with the parts RatingsSummaryFields names
Aggregate(average, samples, averagePerVersion, numberPerVersion, new) ==
    [ LifetimeAverageRating |-> average, LifetimeRatingSamples |-> samples,
      AverageRatingPerVersion |-> averagePerVersion,
      NumberOfRatingsPerVersion |-> numberPerVersion,
      NumberOfNewRatings |-> new ]

\* the per-version values of the aggregate for the versions the object has
Overlay(known, given) ==
    [version \in DOMAIN known |->
        IF version \in DOMAIN given THEN given[version] ELSE known[version]]

\* the merge adds the samples and the new ratings to the ones it finds
MergeRatingsAddingUp(s, feed) ==
    IF s.AppId \notin DOMAIN feed THEN s
    ELSE LET aggregate == feed[s.AppId]
         IN  [s EXCEPT
                !.lifetimeAverageRating = aggregate.LifetimeAverageRating,
                !.lifetimeRatingSamples = @ + aggregate.LifetimeRatingSamples,
                !.numberOfNewRatings = @ + aggregate.NumberOfNewRatings,
                !.averageRatingPerVersion =
                    Overlay(@, aggregate.AverageRatingPerVersion),
                !.numberOfRatingsPerVersion =
                    Overlay(@, aggregate.NumberOfRatingsPerVersion)]

\* the Rating Merge of the feed into the object s
MergeRatings(s, feed) ==
    IF s.AppId \notin DOMAIN feed THEN s
    ELSE LET aggregate == feed[s.AppId]
         IN  [s EXCEPT
                !.lifetimeAverageRating = aggregate.LifetimeAverageRating,
                !.lifetimeRatingSamples = aggregate.LifetimeRatingSamples,
                !.numberOfNewRatings = aggregate.NumberOfNewRatings,
                !.averageRatingPerVersion =
                    Overlay(@, aggregate.AverageRatingPerVersion),
                !.numberOfRatingsPerVersion =
                    Overlay(@, aggregate.NumberOfRatingsPerVersion)]

\* How often the model merges the ratings into one object.
MaxMerges == 2

\* ratings in tenths of a star: aggregates of the app of the report lines
\* (one of them with a version no report line has) and of another app
Feeds ==
    { EmptyDict,
      "1001" :> Aggregate(45, 10, V10 :> 40 @@ V12 :> 50, V10 :> 6 @@ V12 :> 4, 2),
      "1001" :> Aggregate(30, 4, V10 :> 20 @@ V11 :> 40, V10 :> 2 @@ V11 :> 2, 0),
      "2002" :> Aggregate(50, 1, V10 :> 50, V10 :> 1, 1) }

\* installs and updates of two versions
RatingLines ==
    TaggedLines({FALSE}, {V10, V11}, {1}, {0}, {US}, {1}, {Sale, Update},
                {None})

InitRatings ==
    /\ InitConstructor(RatingLines)
    /\ NoRollup
    /\ ratings \in Feeds
    /\ merges = 0
    /\ NoDownload
    /\ NoParser

\* the ratings are merged into the constructed object
RatingMerge ==
    /\ pc = "done"
    /\ merges < MaxMerges
    /\ self' = MergeRatings(self, ratings)
    /\ merges' = merges + 1
    /\ UNCHANGED <<rawData, legacy, pc, idx, ratings, rollupVars, downloadVars,
                   parserVars>>

NextRatings ==
    SortRawData \/ Loop \/ Versions \/ Strings \/ Finish \/ RatingMerge

SpecRatings == InitRatings /\ [][NextRatings]_vars

(***************************************************************************)
(* SalesReportFile: the parser of one report file.  A line of the file is  *)
(* the sequence of the texts between its tabs.                             *)
(***************************************************************************)

\* SalesReportFile.fields: the name of every column
fields ==
    <<"Provider", "Provider Country", "SKU", "Developer", "Title", "Version",
      "Product Type Identifier", "Units", "Developer Proceeds (per item)",
      "Begin Date", "End Date", "Customer Currency", "Country Code",
      "Currency of Proceeds", "Apple Identifier", "Customer Price",
      "Promo Code", "Parent Identifier", "Subscription", "Period",
      "Category">>

FieldNames == { fields[i] : i \in 1..Len(fields) }

\* reportFileLine.strip().split('\t'): strip() takes the blank columns off
\* both ends of the line, and ''.split('\t') is ['']
RECURSIVE StripSplit(_)
StripSplit(columns) ==
    IF columns = <<>> THEN <<"">>
    ELSE IF strip(columns[1]) = "" THEN StripSplit(Tail(columns))
    ELSE IF strip(columns[Len(columns)]) = ""
    THEN StripSplit(SubSeq(columns, 1, Len(columns) - 1))
    ELSE columns

\* int(), float() and strptime(..., "%m/%d/%Y") on the texts of the model;
\* any other text raises ValueError.  Money is a whole number and a date
\* the number of its day.
IntOf == ("1" :> 1) @@ ("2" :> 2) @@ ("-1" :> -1)
FloatOf == ("0" :> 0) @@ ("1" :> 1)
DateOf == ("01/01/2014" :> 1) @@ ("01/02/2014" :> 2)

\* the table a non-empty field is looked up in: <<>> where the field is not
\* remapped.  "Country Code" is looked up in CountryFromCode when
\* ProductTypeFromCode has entries, "Currency of Proceeds" in
\* CurrencyFromCode when CountryFromCode has entries.
RemapTable(fieldName, remapper) ==
    IF fieldName = "Product Type Identifier" /\ remapper.ProductTypeFromCode # <<>>
    THEN <<remapper.ProductTypeFromCode>>
    ELSE IF fieldName = "Provider Country" /\ remapper.CountryFromCode # <<>>
    THEN <<remapper.CountryFromCode>>
    ELSE IF fieldName = "Customer Currency" /\ remapper.CurrencyFromCode # <<>>
    THEN <<remapper.CurrencyFromCode>>
    ELSE IF fieldName = "Country Code" /\ remapper.ProductTypeFromCode # <<>>
    THEN <<remapper.CountryFromCode>>
    ELSE IF fieldName = "Currency of Proceeds" /\ remapper.CountryFromCode # <<>>
    THEN <<remapper.CurrencyFromCode>>
    ELSE IF fieldName = "Promo Code" /\ remapper.PromoTypeFromCode # <<>>
    THEN <<remapper.PromoTypeFromCode>>
    ELSE <<>>

\* the conversion of a non-empty field: <<>> where the field stays a text
Coercion(fieldName) ==
    IF fieldName \in {"Developer Proceeds (per item)", "Customer Price"}
    THEN <<FloatOf>>
    ELSE IF fieldName = "Units" THEN <<IntOf>>
    ELSE IF fieldName \in {"Begin Date", "End Date"} THEN <<DateOf>>
    ELSE <<>>

\* KeyError of a lookup, ValueError of a conversion
FieldRaises(fieldName, fieldValue, remapper) ==
    LET table == RemapTable(fieldName, remapper)
        coercion == Coercion(fieldName)
    IN  IF table # <<>> THEN fieldValue \notin DOMAIN table[1]
        ELSE IF coercion # <<>> THEN fieldValue \notin DOMAIN coercion[1]
        ELSE FALSE

\* the value stored for a non-empty field
FieldValue(fieldName, fieldValue, remapper) ==
    LET table == RemapTable(fieldName, remapper)
        coercion == Coercion(fieldName)
    IN  IF table # <<>> THEN table[1][fieldValue]
        ELSE IF coercion # <<>> THEN coercion[1][fieldValue]
        ELSE fieldValue

\* extractedLine.update({"Currency Code of Proceeds": fieldValue}), which
\* stands in the branch of the "Currency of Proceeds" remapping
WithCurrencyCode(extractedLine, fieldName, fieldValue, remapper) ==
    IF fieldName = "Currency of Proceeds" /\ remapper.CountryFromCode # <<>>
    THEN Put(extractedLine, "Currency Code of Proceeds", fieldValue)
    ELSE extractedLine

\* the loop over the first n elements of a line: an element beyond the last
\* column raises IndexError, an empty one is stored as it is
RECURSIVE Extracted(_, _, _)
Extracted(elements, remapper, n) ==
    IF n = 0 THEN [raised |-> FALSE, extractedLine |-> EmptyDict]
    ELSE LET before == Extracted(elements, remapper, n - 1)
             fieldValue == strip(elements[n])
         IN  IF before.raised THEN before
             ELSE IF n > Len(fields)
             THEN [raised |-> TRUE, extractedLine |-> before.extractedLine]
             ELSE IF fieldValue = ""
             THEN [raised |-> FALSE,
                   extractedLine |-> Put(before.extractedLine, fields[n], "")]
             ELSE IF FieldRaises(fields[n], fieldValue, remapper)
             THEN [raised |-> TRUE, extractedLine |-> before.extractedLine]
             ELSE [raised |-> FALSE,
                   extractedLine |->
                       Put(WithCurrencyCode(before.extractedLine, fields[n],
                                            fieldValue, remapper),
                           fields[n],
                           FieldValue(fields[n], fieldValue, remapper))]

\* pad out missing fields: every name of fields the line has not set is None
Padded(extractedLine) ==
    [name \in DOMAIN extractedLine \cup FieldNames |->
        IF name \in DOMAIN extractedLine THEN extractedLine[name] ELSE None]

\* the record of one line of the file
ParsedLine(reportFileLine, remapper) ==
    LET cleanedLineElements == StripSplit(reportFileLine)
        extracted == Extracted(cleanedLineElements, remapper,
                               Len(cleanedLineElements))
    IN  [raised |-> extracted.raised,
         extractedLine |-> Padded(extracted.extractedLine)]

\* the tables of the four csv files, each with its entries or empty
CountryRows == ("US" :> "United States") @@ ("GB" :> "United Kingdom")
CurrencyRows == ("USD" :> "US Dollar") @@ ("GBP" :> "Pound Sterling")
ProductTypeRows == ("1" :> Sale) @@ ("7" :> Update)
PromoTypeRows == ("CR-RW" :> "Promo Code")

FieldRemappers ==
    { [CountryFromCode |-> c, CurrencyFromCode |-> m,
       ProductTypeFromCode |-> t, PromoTypeFromCode |-> p] :
          c \in {EmptyDict, CountryRows}, m \in {EmptyDict, CurrencyRows},
          t \in {EmptyDict, ProductTypeRows}, p \in {EmptyDict, PromoTypeRows} }

\* a line of app "appA" with the given product type code, day, region,
\* Apple Identifier, promo code and category
FileLine(type, date, country, currency, appleIdentifier, promo, category) ==
    <<"APPLE", "US", "appA", "Dev", "My App", "1.0", type, "1", "1", date,
      date, currency, country, currency, appleIdentifier, "1", promo, "", "",
      "", category>>

HeaderLine == fields

\* an install with every column; an update whose last columns are empty; a
\* line that ends with the Currency of Proceeds column; a line with no
\* Currency of Proceeds; an empty line
ReportFileLines ==
    { FileLine("1", "01/01/2014", "US", "USD", "1001", "CR-RW", "Games"),
      FileLine("7", "01/02/2014", "GB", "GBP", "1001", "", ""),
      SubSeq(FileLine("1", "01/02/2014", "US", "USD", "", "", ""), 1, 14),
      FileLine("1", "01/02/2014", "US", "", "1001", "", "Games"),
      <<"">> }

\* a report file: nothing at all (the placeholder of a day without
\* reports), or the header and up to MaxLen lines
ReportFiles ==
    {<<>>} \cup { <<HeaderLine>> \o lines : lines \in Batches(ReportFileLines) }

\* SalesReportFile(reportFile, isNewFile, fieldRemapper) is called
InitParser ==
    /\ fieldRemapper \in FieldRemappers
    /\ reportFileContents \in ReportFiles
    /\ data = <<>>
    /\ lineIndex = 1
    /\ parsing = "lines"
    /\ rawData = <<>>
    /\ self = NewSKUData
    /\ legacy = HRNewSKUData
    /\ pc = "idle"
    /\ idx = 0
    /\ NoRollup
    /\ NoRatings
    /\ NoDownload

\* if firstLine: continue
SkipHeader ==
    /\ parsing = "lines"
    /\ lineIndex = 1
    /\ lineIndex <= Len(reportFileContents)
    /\ lineIndex' = 2
    /\ UNCHANGED <<fieldRemapper, reportFileContents, data, parsing>>
    /\ UNCHANGED <<constructorVars, rollupVars, ratingVars, downloadVars>>

\* one pass of the loop over the lines: the record is appended to self.data
ParseLine ==
    /\ parsing = "lines"
    /\ lineIndex > 1
    /\ lineIndex <= Len(reportFileContents)
    /\ LET parsed == ParsedLine(reportFileContents[lineIndex], fieldRemapper)
       IN  IF parsed.raised
           THEN /\ parsing' = "raised"
                /\ UNCHANGED <<data, lineIndex>>
           ELSE /\ data' = Append(data, parsed.extractedLine)
                /\ lineIndex' = lineIndex + 1
                /\ UNCHANGED parsing
    /\ UNCHANGED <<fieldRemapper, reportFileContents>>
    /\ UNCHANGED <<constructorVars, rollupVars, ratingVars, downloadVars>>

\* the loop is over: the object is constructed
Parsed ==
    /\ parsing = "lines"
    /\ lineIndex > Len(reportFileContents)
    /\ parsing' = "parsed"
    /\ UNCHANGED <<fieldRemapper, reportFileContents, data, lineIndex>>
    /\ UNCHANGED <<constructorVars, rollupVars, ratingVars, downloadVars>>

NextParser == SkipHeader \/ ParseLine \/ Parsed

SpecParser == InitParser /\ [][NextParser]_vars

(***************************************************************************)
(* downloadDailies: one run asks the report generator (Autoingestion) for  *)
(* the daily report of each of the last numDaysBack days.  A file of the   *)
(* base path is known by the day of its name; its content is "" for the    *)
(* empty placeholder and "report" for a downloaded report.                 *)
(***************************************************************************)

\* Runs of the program, one after the other.
MaxRuns == 2

\* Largest number of days one run looks back.
MaxDaysBack == 2

\* what the generator can answer: a .gz file, a file that is not a .gz,
\* no reports for the day, a day out of range or any other output
Answers == {"gz", "plain", "none", "invalid"}

\* requestedDate = datetime.date.today() - datetime.timedelta(dayOffset)
requestedDate == today - dayOffset

\* os.path.exists(downloadedFilePath)
FileExists == requestedDate \in DOMAIN basePath

\* the base path with no placeholder written for a day without reports
FilesAfterWithoutPlaceholder(files, date, answer) ==
    IF answer = "gz" THEN Put(files, date, "report") ELSE files

\* the base path after the answer: the unpacked report of a .gz, the empty
\* file opened with 'wt' for a day without reports, nothing otherwise
FilesAfter(files, date, answer) ==
    IF answer = "gz" THEN Put(files, date, "report")
    ELSE IF answer = "none" THEN Put(files, date, "")
    ELSE files

\* processDailiesIn: the file is new when its name is in a downloaded path
IsNewFile(date) ==
    \E i \in 1..Len(downloadedFiles) : downloadedFiles[i] = date

\* the program has not run yet
InitDownload ==
    /\ basePath = EmptyDict
    /\ downloadedFiles = <<>>
    /\ addedPlaceHolderFileForEventlessDay = FALSE
    /\ dayOffset = 0
    /\ numDaysBack = 0
    /\ overwriteExistingData = FALSE
    /\ today = 0
    /\ run = 0
    /\ invoked = <<>>
    /\ position = "idle"
    /\ rawData = <<>>
    /\ self = NewSKUData
    /\ legacy = HRNewSKUData
    /\ pc = "idle"
    /\ idx = 0
    /\ NoRollup
    /\ NoRatings
    /\ NoParser

\* the program is started, the same day or the day after the last run, and
\* downloadDailies is called
StartRun ==
    /\ position \in {"idle", "returned", "raised"}
    /\ run < MaxRuns
    /\ run' = run + 1
    /\ today' \in {today, today + 1}
    /\ numDaysBack' \in 1..MaxDaysBack
    /\ overwriteExistingData' \in BOOLEAN
    /\ downloadedFiles' = <<>>
    /\ addedPlaceHolderFileForEventlessDay' = FALSE
    /\ dayOffset' = 0
    /\ position' = "day"
    /\ UNCHANGED <<basePath, invoked>>
    /\ UNCHANGED <<constructorVars, rollupVars, ratingVars, parserVars>>

\* a pass of the loop that calls the generator; shutil is not imported, so
\* the move of a file that is not a .gz raises NameError
Request ==
    /\ position = "day"
    /\ dayOffset < numDaysBack
    /\ IF overwriteExistingData THEN TRUE ELSE ~FileExists
    /\ \E answer \in Answers :
         /\ invoked' = Put(invoked, requestedDate,
                           [run |-> run, answer |-> answer])
         /\ basePath' = FilesAfter(basePath, requestedDate, answer)
         /\ addedPlaceHolderFileForEventlessDay' =
                IF answer = "none" THEN TRUE
                ELSE addedPlaceHolderFileForEventlessDay
         /\ downloadedFiles' =
                IF answer = "gz" THEN Append(downloadedFiles, requestedDate)
                ELSE downloadedFiles
         /\ position' = IF answer = "plain" THEN "raised" ELSE "day"
         /\ dayOffset' = IF answer = "plain" THEN dayOffset ELSE dayOffset + 1
    /\ UNCHANGED <<numDaysBack, overwriteExistingData, today, run>>
    /\ UNCHANGED <<constructorVars, rollupVars, ratingVars, parserVars>>

\* a pass of the loop for a day whose file exists
Skip ==
    /\ position = "day"
    /\ dayOffset < numDaysBack
    /\ IF overwriteExistingData THEN FALSE ELSE FileExists
    /\ dayOffset' = dayOffset + 1
    /\ UNCHANGED <<basePath, downloadedFiles,
                   addedPlaceHolderFileForEventlessDay, numDaysBack,
                   overwriteExistingData, today, run, invoked, position>>
    /\ UNCHANGED <<constructorVars, rollupVars, ratingVars, parserVars>>

\* return [addedPlaceHolderFileForEventlessDay, downloadedFiles]
ReturnDownloaded ==
    /\ position = "day"
    /\ dayOffset = numDaysBack
    /\ position' = "returned"
    /\ UNCHANGED <<basePath, downloadedFiles,
                   addedPlaceHolderFileForEventlessDay, dayOffset,
                   numDaysBack, overwriteExistingData, today, run, invoked>>
    /\ UNCHANGED <<constructorVars, rollupVars, ratingVars, parserVars>>

NextDownload == StartRun \/ Request \/ Skip \/ ReturnDownloaded

SpecDownload == InitDownload /\ [][NextDownload]_vars

TypeOK ==
    pc \in {"idle", "sort", "loop", "versions", "strings", "legacy", "done",
           "failed"}

(***************************************************************************)
(* What the claims speak about.                                            *)
(***************************************************************************)

\* the positions of rawData the loop has processed
Processed == 1..(idx - 1)

\* the loop and the version fill-in have both run (the constructor may
\* still raise later)
VersionsFilled == idx = Len(rawData) + 1 /\ pc # "versions"

RECURSIVE SumUnitsAt(_)
SumUnitsAt(positions) ==
    IF positions = {} THEN 0
    ELSE LET i == CHOOSE x \in positions : TRUE
         IN  rawData[i].line.Units + SumUnitsAt(positions \ {i})

ProcessedUpdates ==
    { i \in Processed : ContainsUpdate(rawData[i].line.ProductTypeIdentifier) }

ProcessedSales == Processed \ ProcessedUpdates

\* the all-install units of the versions that sort strictly before v
PriorCumulativeUnits(v) ==
    SumOver(self.unitsByVersion,
            { w \in DOMAIN self.unitsByVersion : StrLess(w, v) })

VersionSet == { self.versions[i] : i \in 1..Len(self.versions) }

\* the first version in sort order
IsFirstVersion(v) == \A w \in VersionSet : ~StrLess(w, v)

(***************************************************************************)
(* C1: in every state of the construction, after each processed line and   *)
(* at its end, the sum of unitsByVersion over all versions equals          *)
(* allInstallsTotal, and both equal the sum of the units of the non-Update *)
(* lines processed so far, refunds counted as negative units.              *)
(***************************************************************************)
C1_UnitsByVersionSum ==
    /\ SumValues(self.unitsByVersion) = self.allInstallsTotal
    /\ self.allInstallsTotal = SumUnitsAt(ProcessedSales)

\* a finished object with installs of two versions and a refund
C1_Witness ==
    /\ pc = "done"
    /\ \E v, w \in DOMAIN self.unitsByVersion :
          v # w /\ self.unitsByVersion[v] > 0 /\ self.unitsByVersion[w] < 0
    /\ self.refundsTotal > 0

(***************************************************************************)
(* C2: in every state the sum of updatesByVersion over all versions equals *)
(* the sum of the units of the Update lines processed so far, and equals   *)
(* the sum of updatesByDate over all dates.                                *)
(***************************************************************************)
C2_UpdatesSum ==
    /\ SumValues(self.updatesByVersion) = SumUnitsAt(ProcessedUpdates)
    /\ SumValues(self.updatesByDate) = SumUnitsAt(ProcessedUpdates)

\* a finished object with updates of two versions on two dates
C2_Witness ==
    /\ pc = "done"
    /\ \E v, w \in DOMAIN self.updatesByVersion :
          v # w /\ self.updatesByVersion[v] > 0 /\ self.updatesByVersion[w] > 0
    /\ \E d, e \in DOMAIN self.updatesByDate :
          d # e /\ self.updatesByDate[d] > 0 /\ self.updatesByDate[e] > 0

(***************************************************************************)
(* C9: every entry of userRetentionByVersion is the quotient of            *)
(* updatesByVersion[v] by the sum of unitsByVersion[w] over the versions w *)
(* that sort strictly before v; the units of v and of later versions are   *)
(* not in the denominator.                                                 *)
(***************************************************************************)
C9_RetentionUsesEarlierVersions ==
    VersionsFilled =>
        \A v \in DOMAIN self.userRetentionByVersion :
            self.userRetentionByVersion[v] =
                <<self.updatesByVersion[v], PriorCumulativeUnits(v)>>

\* two earlier versions with installs, and a third with updates and installs
\* of its own: retention 2 / 4 for "1.2"
C9_Witness ==
    /\ pc = "done"
    /\ self.versions = <<V10, V11, V12>>
    /\ self.unitsByVersion[V10] = 2
    /\ self.unitsByVersion[V11] = 2
    /\ self.updatesByVersion[V12] = 2
    /\ self.userRetentionByVersion[V12] = <<2, 4>>

(***************************************************************************)
(* C10, as claimed: no entry for the first version, and for every later    *)
(* version an entry exactly when priorCumulativeUnits is not zero.         *)
(***************************************************************************)
C10_EntryIffPriorNonZero ==
    VersionsFilled =>
        \A v \in VersionSet :
            v \in DOMAIN self.userRetentionByVersion
                <=> (~IsFirstVersion(v) /\ PriorCumulativeUnits(v) # 0)

(***************************************************************************)
(* C10, amended: no entry for the first version, for every later version   *)
(* an entry exactly when priorCumulativeUnits is greater than zero, and no *)
(* quotient with a zero denominator is ever formed.                        *)
(***************************************************************************)
C10_EntryIffPriorPositive ==
    VersionsFilled =>
        /\ \A v \in VersionSet :
              v \in DOMAIN self.userRetentionByVersion
                  <=> (~IsFirstVersion(v) /\ PriorCumulativeUnits(v) > 0)
        /\ \A v \in DOMAIN self.userRetentionByVersion :
              self.userRetentionByVersion[v][2] # 0

\* a later version omitted because refunds outweigh the earlier installs,
\* and a still later one that has its entry
C10_Witness ==
    /\ pc = "done"
    /\ self.versions = <<V10, V11, V12>>
    /\ PriorCumulativeUnits(V11) < 0
    /\ V11 \notin DOMAIN self.userRetentionByVersion
    /\ PriorCumulativeUnits(V12) > 0
    /\ V12 \in DOMAIN self.userRetentionByVersion

(***************************************************************************)
(* C3: once the version fill-in and the string formatting have run, every  *)
(* version in versions has an entry in unitsByVersion, updatesByVersion,   *)
(* refundsByVersion, promoCodesByVersion, proceedsByVersion and            *)
(* proceedsByVersionString, and the entry is zero or empty when no line of *)
(* the batch gave that version activity of that kind.                      *)
(***************************************************************************)
LinesOf(v, positions) == { i \in positions : rawData[i].line.Version = v }

C3_VersionsAreDense ==
    pc \in {"legacy", "done"} =>
        \A v \in VersionSet :
            /\ v \in DOMAIN self.unitsByVersion
            /\ v \in DOMAIN self.updatesByVersion
            /\ v \in DOMAIN self.refundsByVersion
            /\ v \in DOMAIN self.promoCodesByVersion
            /\ v \in DOMAIN self.proceedsByVersion
            /\ v \in DOMAIN self.proceedsByVersionString
            /\ LinesOf(v, ProcessedSales) = {} => self.unitsByVersion[v] = 0
            /\ LinesOf(v, ProcessedUpdates) = {} => self.updatesByVersion[v] = 0
            /\ (\A i \in LinesOf(v, ProcessedSales) : rawData[i].line.Units >= 0)
                  => self.refundsByVersion[v] = 0
            /\ (\A i \in LinesOf(v, ProcessedSales) :
                    rawData[i].line.PromoCode = None)
                  => self.promoCodesByVersion[v] = 0
            /\ (\A i \in LinesOf(v, ProcessedSales) : Proceeds(rawData[i].line) = 0)
                  => /\ self.proceedsByVersion[v] = EmptyDict
                     /\ self.proceedsByVersionString[v] = <<>>

\* a finished object: version 1.0 with a paid sale and a promo-code install
\* but no refund and no update, version 1.1 with an update only
C3_Witness ==
    /\ pc = "done"
    /\ self.versions = <<V10, V11>>
    /\ self.promoCodesByVersion[V10] = 1
    /\ self.proceedsByVersion[V10] # EmptyDict
    /\ self.refundsByVersion[V10] = 0
    /\ self.updatesByVersion[V10] = 0
    /\ LinesOf(V11, ProcessedSales) = {}
    /\ self.updatesByVersion[V11] = 1
    /\ self.unitsByVersion[V11] = 0
    /\ self.proceedsByVersionString[V11] = <<>>

(***************************************************************************)
(* C4, as claimed: for every currency c, proceedsTotal[c] equals the sum   *)
(* over the versions of proceedsByVersion[v][c] and the sum over the dates *)
(* of proceedsByDate[d][c], an absent entry counted as 0.                  *)
(***************************************************************************)
Currencies == {US[2], GB[2]}

C4_ProceedsTotalIsSumOfParts ==
    \A c \in Currencies :
        /\ Lookup(self.proceedsTotal, c) =
               SumInner(self.proceedsByVersion, DOMAIN self.proceedsByVersion, c)
        /\ Lookup(self.proceedsTotal, c) =
               SumInner(self.proceedsByDate, DOMAIN self.proceedsByDate, c)

(***************************************************************************)
(* C5, as claimed: the step that processes an Update line leaves every     *)
(* install, proceeds, country, promo and refund total and mapping as it    *)
(* was (a date the step records with a zero or empty entry counts as       *)
(* unchanged).                                                             *)
(***************************************************************************)
UpdateStep ==
    /\ pc = "loop"
    /\ pc' # "failed"
    /\ ContainsUpdate(rawData[idx].line.ProductTypeIdentifier)

SameByDate(before, after) ==
    \A d \in DOMAIN before \cup DOMAIN after :
        Lookup(after, d) = Lookup(before, d)

C5_UpdateLeavesTheRest ==
    [][UpdateStep =>
          /\ self'.proceedsTotal = self.proceedsTotal
          /\ self'.newProceedsTotal = self.newProceedsTotal
          /\ self'.proceedsByVersion = self.proceedsByVersion
          /\ \A d \in DOMAIN self.proceedsByDate :
                self'.proceedsByDate[d] = self.proceedsByDate[d]
          /\ \A d \in DOMAIN self'.proceedsByDate \ DOMAIN self.proceedsByDate :
                self'.proceedsByDate[d] = EmptyDict
          /\ self'.allInstallsTotal = self.allInstallsTotal
          /\ self'.paidInstallsTotal = self.paidInstallsTotal
          /\ self'.freeInstallsTotal = self.freeInstallsTotal
          /\ self'.unitsByVersion = self.unitsByVersion
          /\ SameByDate(self.allInstallsByDate, self'.allInstallsByDate)
          /\ SameByDate(self.paidInstallsByDate, self'.paidInstallsByDate)
          /\ SameByDate(self.freeInstallsByDate, self'.freeInstallsByDate)
          /\ self'.allInstallsByCountry = self.allInstallsByCountry
          /\ self'.paidInstallsByCountry = self.paidInstallsByCountry
          /\ self'.freeInstallsByCountry = self.freeInstallsByCountry
          /\ self'.newAllInstallsTotal = self.newAllInstallsTotal
          /\ self'.newPaidInstallsTotal = self.newPaidInstallsTotal
          /\ self'.newFreeInstallsTotal = self.newFreeInstallsTotal
          /\ self'.newAllInstallsByCountry = self.newAllInstallsByCountry
          /\ self'.newPaidInstallsByCountry = self.newPaidInstallsByCountry
          /\ self'.newFreeInstallsByCountry = self.newFreeInstallsByCountry
          /\ self'.promoCodesTotal = self.promoCodesTotal
          /\ self'.promoCodesByVersion = self.promoCodesByVersion
          /\ self'.newPromoCodesTotal = self.newPromoCodesTotal
          /\ self'.refundsTotal = self.refundsTotal
          /\ self'.refundsByVersion = self.refundsByVersion
          /\ self'.newRefundsTotal = self.newRefundsTotal
      ]_vars

(***************************************************************************)
(* C6: in every state, proceedsTotal and newProceedsTotal hold no currency *)
(* whose amount is zero.                                                   *)
(***************************************************************************)
NoZeroAmount(d) == \A c \in DOMAIN d : d[c] # 0

C6_TotalsHaveNoZeroCurrency ==
    /\ NoZeroAmount(self.proceedsTotal)
    /\ NoZeroAmount(self.newProceedsTotal)

\* a finished object with proceeds in both totals, after a refund and a
\* free install have been processed
C6_Witness ==
    /\ pc = "done"
    /\ DOMAIN self.proceedsTotal # {}
    /\ DOMAIN self.newProceedsTotal # {}
    /\ self.refundsTotal > 0
    /\ self.freeInstallsTotal > 0

(***************************************************************************)
(* C7, as claimed: in every proceeds map, the per-version maps             *)
(* proceedsByVersion[v] and the per-date maps proceedsByDate[d] included,  *)
(* no currency appears with a zero value.                                  *)
(***************************************************************************)
C7_NoZeroInAnyProceedsMap ==
    /\ NoZeroAmount(self.proceedsTotal)
    /\ NoZeroAmount(self.newProceedsTotal)
    /\ \A v \in DOMAIN self.proceedsByVersion :
          NoZeroAmount(self.proceedsByVersion[v])
    /\ \A d \in DOMAIN self.proceedsByDate :
          NoZeroAmount(self.proceedsByDate[d])

(***************************************************************************)
(* C8, as claimed: the step that processes a non-Update line adds its      *)
(* units to the paid buckets (total, by date, by country) and leaves the   *)
(* free buckets alone when units * proceedsPerItem is not zero, and does   *)
(* the opposite when it is zero.  The claim is stated of both SKUData      *)
(* classes, the one of SKUData.py and the one of harvestReports.py.        *)
(***************************************************************************)
SaleStep ==
    /\ pc = "loop"
    /\ pc' # "failed"
    /\ ~ContainsUpdate(rawData[idx].line.ProductTypeIdentifier)

AccruedToPaid(before, after, line) ==
    /\ after.paidInstallsTotal = before.paidInstallsTotal + line.Units
    /\ Lookup(after.paidInstallsByDate, line.BeginDate) =
           Lookup(before.paidInstallsByDate, line.BeginDate) + line.Units
    /\ Lookup(after.paidInstallsByCountry, line.CountryCode) =
           Lookup(before.paidInstallsByCountry, line.CountryCode) + line.Units
    /\ after.freeInstallsTotal = before.freeInstallsTotal
    /\ SameByDate(before.freeInstallsByDate, after.freeInstallsByDate)
    /\ SameByDate(before.freeInstallsByCountry, after.freeInstallsByCountry)

AccruedToFree(before, after, line) ==
    /\ after.freeInstallsTotal = before.freeInstallsTotal + line.Units
    /\ Lookup(after.freeInstallsByDate, line.BeginDate) =
           Lookup(before.freeInstallsByDate, line.BeginDate) + line.Units
    /\ Lookup(after.freeInstallsByCountry, line.CountryCode) =
           Lookup(before.freeInstallsByCountry, line.CountryCode) + line.Units
    /\ after.paidInstallsTotal = before.paidInstallsTotal
    /\ SameByDate(before.paidInstallsByDate, after.paidInstallsByDate)
    /\ SameByDate(before.paidInstallsByCountry, after.paidInstallsByCountry)

AccruedByProceeds(before, after, line) ==
    IF Proceeds(line) # 0
    THEN AccruedToPaid(before, after, line)
    ELSE AccruedToFree(before, after, line)

C8_PaidOrFreeByProceeds ==
    [][SaleStep =>
          /\ AccruedByProceeds(self, self', rawData[idx].line)
          /\ AccruedByProceeds(legacy, legacy', rawData[idx].line)
      ]_vars

\* C8 of the class of SKUData.py alone
C8_PaidOrFreeInSKUDataPy ==
    [][SaleStep => AccruedByProceeds(self, self', rawData[idx].line)]_vars

(***************************************************************************)
(* C11: when the construction of a batch whose allInstallsTotal is not 0   *)
(* has ended, legacyUserPercentage is the quotient of                      *)
(* 100 * (allInstallsTotal - unitsByVersion[latest] - updatesByVersion     *)
(* [latest]) by allInstallsTotal, where latest is the last element of the  *)
(* sorted versions list, the greatest version string of the batch.         *)
(***************************************************************************)
C11_LegacyUserPercentage ==
    (pc = "done" /\ self.allInstallsTotal # 0) =>
        LET latest == self.versions[Len(self.versions)]
        IN  /\ \A i \in 1..Len(rawData) :
                   \/ rawData[i].line.Version = latest
                   \/ StrLess(rawData[i].line.Version, latest)
            /\ self.legacyUserPercentage =
                   <<100 * (self.allInstallsTotal
                              - self.unitsByVersion[latest]
                              - self.updatesByVersion[latest]),
                     self.allInstallsTotal>>

\* two versions, updates to the latest one, and users left on the older one
C11_Witness ==
    /\ pc = "done"
    /\ Len(self.versions) >= 2
    /\ self.updatesByVersion[self.versions[Len(self.versions)]] > 0
    /\ self.legacyUserPercentage[1] > 0
    /\ self.legacyUserPercentage[2] > 0

(***************************************************************************)
(* C12: when every line of a batch has been processed and allInstallsTotal *)
(* is 0 (only Update lines, or sales netted out by refunds), the           *)
(* construction does not fail, and when it has ended legacyUserPercentage  *)
(* is absent (never assigned).                                             *)
(***************************************************************************)
C12_ZeroInstallsStillCompletes ==
    (idx = Len(rawData) + 1 /\ self.allInstallsTotal = 0) =>
        /\ pc # "failed"
        /\ pc = "done" => self.legacyUserPercentage = <<>>

\* a field value that is missing or blank
Blank(value) == value = None \/ strip(value) = ""

\* the first non-blank value of a field among the lines in date order (the
\* order of rawData once it is sorted), "Unknown" when every value is blank
FirstNonBlank(field) ==
    LET nonBlank == { i \in 1..Len(rawData) : ~Blank(rawData[i].line[field]) }
    IN  IF nonBlank = {} THEN "Unknown"
        ELSE LET first == CHOOSE i \in nonBlank : \A j \in nonBlank : i <= j
             IN  strip(rawData[first].line[field])

(***************************************************************************)
(* C13: when the construction has ended, SKU, Name and AppId are each the  *)
(* first non-blank value of the SKU, Title and Apple Identifier field      *)
(* among the lines taken in ascending Begin Date order; a later line with  *)
(* a different or a blank value has not replaced it.                       *)
(***************************************************************************)
C13_IdentityIsFirstNonBlank ==
    pc = "done" =>
        /\ self.SKU = FirstNonBlank("SKU")
        /\ self.Name = FirstNonBlank("Title")
        /\ self.AppId = FirstNonBlank("AppleIdentifier")

\* what SKUData.py does keep of C13: SKU and AppId follow the first
\* non-blank rule, and so does the Name of the class of harvestReports.py
C13_SKUAndAppIdAreFirstNonBlank ==
    pc = "done" =>
        /\ self.SKU = FirstNonBlank("SKU")
        /\ self.AppId = FirstNonBlank("AppleIdentifier")
        /\ legacy.SKU = FirstNonBlank("SKU")
        /\ legacy.Name = FirstNonBlank("Title")

\* the identity fields of line i of rawData
MissingIdentity(i) ==
    \/ rawData[i].line.SKU = None
    \/ rawData[i].line.Title = None
    \/ rawData[i].line.AppleIdentifier = None

(***************************************************************************)
(* C14: the construction never fails on a line whose SKU, Title or Apple   *)
(* Identifier is None or blank, and when it has ended the identity fields  *)
(* of the object are the first non-blank values of the other lines.        *)
(***************************************************************************)
C14_MissingIdentityIsTolerated ==
    /\ \A i \in 1..Len(rawData) :
           (MissingIdentity(i) \/ Blank(rawData[i].line.Title)
              \/ Blank(rawData[i].line.AppleIdentifier)) =>
               ~(pc = "failed" /\ idx = i)
    /\ pc = "done" =>
           /\ self.SKU = FirstNonBlank("SKU")
           /\ self.AppId = FirstNonBlank("AppleIdentifier")

\* lines 99-102 alone tolerate a blank value, and a None value once the
\* field of the object is set
C14_BlankIsTolerated ==
    \A i \in 1..Len(rawData) :
        (pc = "failed" /\ idx = i) =>
            /\ rawData[i].line.AppleIdentifier = None
            /\ self.AppId = "Unknown"

(***************************************************************************)
(* C15: once the versions have been sorted, versions holds exactly the     *)
(* Version values of the lines of the batch, Update lines included, each   *)
(* once, in ascending string order, so that "1.10" comes before "1.2".     *)
(***************************************************************************)
C15_VersionsSortedDistinct ==
    VersionsFilled =>
        /\ VersionSet = { rawData[i].line.Version : i \in 1..Len(rawData) }
        /\ \A i \in 1..(Len(self.versions) - 1) :
               StrLess(self.versions[i], self.versions[i + 1])
        /\ \A i, j \in 1..Len(self.versions) :
               (self.versions[i] = V110 /\ self.versions[j] = V12) => i < j

\* the three versions, 1.10 known from an Update line only and reported
\* after 1.2
C15_Witness ==
    /\ VersionsFilled
    /\ self.versions = <<V10, V110, V12>>
    /\ \E i, j \in 1..Len(rawData) :
           /\ i < j
           /\ rawData[i].line.Version = V12
           /\ rawData[j].line.Version = V110
           /\ ContainsUpdate(rawData[j].line.ProductTypeIdentifier)

\* the loop processes the line at idx
LineStep == pc = "loop" /\ pc' # "failed"

\* -units of a refund
Abs(n) == IF n < 0 THEN -n ELSE n

(***************************************************************************)
(* C16: a non-Update line with units < 0 adds abs(units) to refundsTotal   *)
(* and to refundsByVersion[version] (and to newRefundsTotal when it is     *)
(* tagged new) and lowers allInstallsTotal by abs(units); a line with      *)
(* units >= 0 and an Update line change no refund counter; so after every  *)
(* step refundsTotal is the sum of refundsByVersion and is not negative.   *)
(***************************************************************************)
C16_RefundAccounting ==
    [][/\ LineStep =>
            LET isNewData == rawData[idx].isNewData
                line == rawData[idx].line
            IN  IF ~ContainsUpdate(line.ProductTypeIdentifier) /\ line.Units < 0
                THEN /\ self'.refundsTotal = self.refundsTotal + Abs(line.Units)
                     /\ Lookup(self'.refundsByVersion, line.Version) =
                            Lookup(self.refundsByVersion, line.Version)
                              + Abs(line.Units)
                     /\ \A v \in DOMAIN self'.refundsByVersion \ {line.Version} :
                            /\ v \in DOMAIN self.refundsByVersion
                            /\ self'.refundsByVersion[v] = self.refundsByVersion[v]
                     /\ self'.newRefundsTotal =
                            self.newRefundsTotal
                              + (IF isNewData THEN Abs(line.Units) ELSE 0)
                     /\ self'.allInstallsTotal =
                            self.allInstallsTotal - Abs(line.Units)
                ELSE /\ self'.refundsTotal = self.refundsTotal
                     /\ self'.refundsByVersion = self.refundsByVersion
                     /\ self'.newRefundsTotal = self.newRefundsTotal
       /\ self'.refundsTotal = SumValues(self'.refundsByVersion)
       /\ self'.refundsTotal >= 0
       /\ self'.newRefundsTotal >= 0
      ]_vars

\* refunds of two versions, one of them new, more refunds than installs,
\* and an update line with negative units among the processed lines
C16_Witness ==
    /\ pc = "done"
    /\ Lookup(self.refundsByVersion, V10) = 2
    /\ Lookup(self.refundsByVersion, V11) = 2
    /\ self.refundsTotal = 4
    /\ self.newRefundsTotal = 2
    /\ self.allInstallsTotal = -4
    /\ ProcessedUpdates # {}

(***************************************************************************)
(* C17: a non-Update line whose promo code is neither None nor empty adds  *)
(* its units to promoCodesTotal and to promoCodesByVersion[version] (and   *)
(* to newPromoCodesTotal when it is tagged new) whether it is paid or      *)
(* free: with non-zero proceeds its units also go to paidInstallsByCountry *)
(* and not to freeInstallsByCountry.  A line whose promo code is None or   *)
(* empty changes no promo counter.                                         *)
(***************************************************************************)
C17_PromoCodesWhateverThePrice ==
    [][(LineStep /\ ~ContainsUpdate(rawData[idx].line.ProductTypeIdentifier)) =>
          LET isNewData == rawData[idx].isNewData
              line == rawData[idx].line
          IN  IF line.PromoCode # None /\ line.PromoCode # ""
              THEN /\ self'.promoCodesTotal = self.promoCodesTotal + line.Units
                   /\ Lookup(self'.promoCodesByVersion, line.Version) =
                          Lookup(self.promoCodesByVersion, line.Version)
                            + line.Units
                   /\ self'.newPromoCodesTotal =
                          self.newPromoCodesTotal
                            + (IF isNewData THEN line.Units ELSE 0)
                   /\ (line.Units * line.ProceedsPerItem # 0) =>
                          /\ Lookup(self'.paidInstallsByCountry, line.CountryCode) =
                                 Lookup(self.paidInstallsByCountry, line.CountryCode)
                                   + line.Units
                          /\ self'.freeInstallsByCountry =
                                 self.freeInstallsByCountry
              ELSE /\ self'.promoCodesTotal = self.promoCodesTotal
                   /\ self'.promoCodesByVersion = self.promoCodesByVersion
                   /\ self'.newPromoCodesTotal = self.newPromoCodesTotal
      ]_vars

\* one new paid line with a promo code, and lines with None and with an
\* empty promo code: the promo units are in the paid bucket of the country
\* and the country has no free installs
C17_Witness ==
    /\ pc = "done"
    /\ \E i \in Processed :
           /\ rawData[i].line.PromoCode = "PROMO"
           /\ rawData[i].line.ProceedsPerItem = 1
           /\ rawData[i].isNewData
    /\ \E i \in Processed : rawData[i].line.PromoCode = ""
    /\ \E i \in Processed : rawData[i].line.PromoCode = None
    /\ self.promoCodesTotal = 2
    /\ self.promoCodesByVersion[V10] = 2
    /\ self.newPromoCodesTotal = 2
    /\ self.paidInstallsByCountry["US"] = 6
    /\ "US" \notin DOMAIN self.freeInstallsByCountry

\* the processed lines that are tagged new, in the order of rawData
NewRecords ==
    SelectSeq(SubSeq(rawData, 1, idx - 1), LAMBDA r : r.isNewData)

\* the object the loop builds from the first n of the given tagged lines
RECURSIVE LoopOver(_, _)
LoopOver(lines, n) ==
    IF n = 0 THEN NewSKUData
    ELSE ProcessLine(LoopOver(lines, n - 1), FALSE, lines[n].line)

\* the all-time fields of the sub-batch of the new records
OfNewRecords == LoopOver(NewRecords, Len(NewRecords))

(***************************************************************************)
(* C18: after every processed line and at the end of the construction,     *)
(* each new* field is what its all-time counterpart is for the sub-batch   *)
(* of the processed lines tagged new (newUpdatesTotal, which has no        *)
(* all-time field, is the sum of that sub-batch's updatesByVersion); a     *)
(* line that is not tagged new therefore leaves every new* field as it is. *)
(***************************************************************************)
C18_NewFieldsAreAllTimeOfNewRecords ==
    /\ self.newAllInstallsTotal = OfNewRecords.allInstallsTotal
    /\ self.newPaidInstallsTotal = OfNewRecords.paidInstallsTotal
    /\ self.newFreeInstallsTotal = OfNewRecords.freeInstallsTotal
    /\ self.newRefundsTotal = OfNewRecords.refundsTotal
    /\ self.newPromoCodesTotal = OfNewRecords.promoCodesTotal
    /\ self.newUpdatesTotal = SumValues(OfNewRecords.updatesByVersion)
    /\ self.newProceedsTotal = OfNewRecords.proceedsTotal
    /\ self.newAllInstallsByCountry = OfNewRecords.allInstallsByCountry
    /\ self.newPaidInstallsByCountry = OfNewRecords.paidInstallsByCountry
    /\ self.newFreeInstallsByCountry = OfNewRecords.freeInstallsByCountry

\* a batch of old and new lines: the new ones are a paid sale and an update
C18_Witness ==
    /\ pc = "done"
    /\ Len(NewRecords) = 2
    /\ Len(rawData) = 3
    /\ self.newAllInstallsTotal = 2
    /\ self.allInstallsTotal = 4
    /\ self.newUpdatesTotal = 1
    /\ DOMAIN self.newPaidInstallsByCountry = {"GB"}
    /\ DOMAIN self.paidInstallsByCountry = {"GB", "US"}

\* the Begin Dates of the processed lines that are tagged new
NewDates ==
    { rawData[i].line.BeginDate :
        i \in { j \in Processed : rawData[j].isNewData } }

(***************************************************************************)
(* C19: after every processed line and at the end of the construction,     *)
(* hasNewData is true exactly when a processed line, Update or not, is     *)
(* tagged new; then the first and the last element of newDataDates, the    *)
(* range the summaries report, are the least and the greatest Begin Date   *)
(* of the new lines; otherwise newDataDates is empty.                      *)
(***************************************************************************)
C19_NewDataDateRange ==
    /\ self.hasNewData = (NewDates # {})
    /\ self.hasNewData =>
           /\ self.newDataDates # <<>>
           /\ NewDataDateRange(self)[1] \in NewDates
           /\ NewDataDateRange(self)[2] \in NewDates
           /\ \A d \in NewDates :
                  /\ NewDataDateRange(self)[1] <= d
                  /\ d <= NewDataDateRange(self)[2]
    /\ ~self.hasNewData => self.newDataDates = <<>>

\* the batch holds an old line of day 1 and new lines of days 2 and 3, of
\* which one is an update
C19_Witness ==
    /\ pc \in {"done", "failed"}
    /\ idx = Len(rawData) + 1
    /\ self.hasNewData
    /\ self.newDataDates = <<2, 3>>
    /\ \E i \in Processed : ~rawData[i].isNewData /\ rawData[i].line.BeginDate = 1
    /\ \E i \in ProcessedUpdates : rawData[i].isNewData

\* the countries of the given lines of rawData
CountriesOf(positions) == { rawData[i].line.CountryCode : i \in positions }

(***************************************************************************)
(* C20: when the construction has ended, every country code of a line of   *)
(* the batch is a key of allInstallsByCountry, of paidInstallsByCountry    *)
(* and of freeInstallsByCountry (with the value 0 where the country had no *)
(* activity of that kind).                                                 *)
(***************************************************************************)
C20_EveryCountryInEveryMap ==
    pc = "done" =>
        \A c \in CountriesOf(1..Len(rawData)) :
            /\ c \in DOMAIN self.allInstallsByCountry
            /\ c \in DOMAIN self.paidInstallsByCountry
            /\ c \in DOMAIN self.freeInstallsByCountry

\* what the code keeps: a by-country map has the countries of the lines
\* that were added to it and no others
C20_CountriesOfAccruedLines ==
    pc = "done" =>
        /\ DOMAIN self.allInstallsByCountry = CountriesOf(ProcessedSales)
        /\ DOMAIN self.paidInstallsByCountry =
               CountriesOf({ i \in ProcessedSales : Proceeds(rawData[i].line) # 0 })
        /\ DOMAIN self.freeInstallsByCountry =
               CountriesOf({ i \in ProcessedSales : Proceeds(rawData[i].line) = 0 })

\* the entries of the report files that carry the given SKU, each tagged
\* with the isNewFile of its file, in the order of the files
RecordsOf(entries, sku) == SelectSeq(entries, LAMBDA r : r.line.SKU = sku)

\* the SKU values of the given entries
SKUsOf(entries) == { entries[i].line.SKU : i \in 1..Len(entries) }

\* how often x occurs in the list
Occurrences(list, x) == Cardinality({ i \in 1..Len(list) : list[i] = x })

\* the same elements, each as often
SameRecords(a, b) ==
    /\ Len(a) = Len(b)
    /\ \A i \in 1..Len(a) : Occurrences(a, a[i]) = Occurrences(b, a[i])

\* the entries the grouping loop has gone through
GroupedEntries ==
    SubSeq(ReportEntries(salesReportObjects), 1, entryIdx - 1)

RECURSIVE Folded(_, _)
Folded(lines, n) ==
    IF n = 0 THEN NewSKUData
    ELSE ProcessLine(Folded(lines, n - 1), lines[n].isNewData, lines[n].line)

\* the for loop of harvestReports.py over the first n tagged lines
RECURSIVE HRFolded(_, _)
HRFolded(lines, n) ==
    IF n = 0 THEN HRNewSKUData
    ELSE HRProcessLine(HRFolded(lines, n - 1), lines[n].isNewData, lines[n].line)

\* what a constructor call on these lines alone, and on nothing else, builds
ObjectOf(reportLines) ==
    LET sorted == SortByBeginDate(reportLines)
    IN  [rawData |-> sorted,
         self |-> GenerateGraphs(LegacyPercentage(FormatStrings(FillVersions(
                      Folded(sorted, Len(sorted)))))),
         legacy |-> HRLegacyPercentage(HRFillVersions(
                        HRFolded(sorted, Len(sorted))))]

(***************************************************************************)
(* C22: the objects of different SKUs share no state.  Whatever files are  *)
(* listed, in whatever order, and in whatever order the SKUs are built,    *)
(* the object stored for a SKU is the one a constructor call on the        *)
(* entries of that SKU alone builds: the entries of the other SKUs and the *)
(* objects built before do not show in it.                                 *)
(***************************************************************************)
C22_ObjectsShareNoState ==
    \A sku \in DOMAIN skuData :
        skuData[sku] =
            ObjectOf(RecordsOf(ReportEntries(salesReportObjects), sku))

\* two SKUs in the same files; the object of appA was built after the one
\* of appB
C22_Witness ==
    /\ stage = "returned"
    /\ DOMAIN skuData = {"appA", "appB"}
    /\ skuName = "appA"
    /\ skuData["appA"].self.SKU = "appA"
    /\ skuData["appB"].self.SKU = "appB"
    /\ skuData["appA"].self.allInstallsTotal # skuData["appB"].self.allInstallsTotal
    /\ \E i \in 1..Len(salesReportObjects) :
           SKUsOf(ReportEntries(<<salesReportObjects[i]>>)) = {"appA", "appB"}

(***************************************************************************)
(* C23: the Rating Merge is idempotent: merging the same rating aggregate  *)
(* into an object once more leaves the object exactly as the first merge   *)
(* left it.                                                                *)
(***************************************************************************)
C23_RatingMergeIsIdempotent ==
    [][(merges >= 1 /\ merges' = merges + 1) => self' = self]_vars

\* the aggregate of the app was merged twice; it changed the fields of the
\* object and of version 1.0, and its version 1.2 is not in the object
C23_Witness ==
    /\ merges = 2
    /\ self.AppId \in DOMAIN ratings
    /\ self.lifetimeRatingSamples = 10
    /\ self.numberOfNewRatings = 2
    /\ DOMAIN self.averageRatingPerVersion = {V10, V11}
    /\ self.averageRatingPerVersion[V10] = 40
    /\ self.averageRatingPerVersion[V11] = 0
    /\ V12 \in DOMAIN ratings[self.AppId].AverageRatingPerVersion

(***************************************************************************)
(* C24: once the versions are filled in and until the ratings are merged,  *)
(* lifetimeAverageRating, lifetimeRatingSamples and numberOfNewRatings are *)
(* 0, and averageRatingPerVersion and numberOfRatingsPerVersion have       *)
(* exactly the versions of the versions list as keys, each with value 0.   *)
(***************************************************************************)
C24_NoRatingsBeforeTheMerge ==
    (VersionsFilled /\ merges = 0) =>
        /\ self.lifetimeAverageRating = 0
        /\ self.lifetimeRatingSamples = 0
        /\ self.numberOfNewRatings = 0
        /\ DOMAIN self.averageRatingPerVersion = VersionSet
        /\ DOMAIN self.numberOfRatingsPerVersion = VersionSet
        /\ \A v \in VersionSet :
               /\ self.averageRatingPerVersion[v] = 0
               /\ self.numberOfRatingsPerVersion[v] = 0

\* a constructed object of two versions whose app has an aggregate in the
\* feed, not merged yet
C24_Witness ==
    /\ pc = "done"
    /\ merges = 0
    /\ self.versions = <<V10, V11>>
    /\ self.AppId \in DOMAIN ratings
    /\ self.numberOfRatingsPerVersion = (V10 :> 0 @@ V11 :> 0)

\* the lines of the list that bear the given Begin Date, in list order
OfDate(lines, date) == SelectSeq(lines, LAMBDA r : r.line.BeginDate = date)

\* the Begin Dates of the list
DatesOf(lines) == { lines[i].line.BeginDate : i \in 1..Len(lines) }

(***************************************************************************)
(* C25: the sort of rawData leaves a list in non-decreasing Begin Date     *)
(* order that has, for every date, the lines of that date in the order in  *)
(* which they were supplied, and no other lines (nothing added, dropped or *)
(* altered); no later step changes the list; and the loop folds the lines  *)
(* one by one in list order, so each folded line has a Begin Date not      *)
(* earlier than the lines folded before it.                                *)
(***************************************************************************)
C25_StableSortThenFold ==
    [][/\ pc = "sort" =>
            /\ Len(rawData') = Len(rawData)
            /\ DatesOf(rawData') = DatesOf(rawData)
            /\ \A d \in DatesOf(rawData) : OfDate(rawData', d) = OfDate(rawData, d)
            /\ \A i, j \in 1..Len(rawData') :
                   i < j => rawData'[i].line.BeginDate <= rawData'[j].line.BeginDate
       /\ pc # "sort" => rawData' = rawData
       /\ LineStep =>
            /\ idx' = idx + 1
            /\ \A j \in Processed :
                   rawData[j].line.BeginDate <= rawData[idx].line.BeginDate
      ]_vars

\* the loop has folded three lines, the last two of the same day and
\* different
C25_Witness ==
    /\ pc = "versions"
    /\ Len(rawData) = 3
    /\ rawData[1].line.BeginDate < rawData[2].line.BeginDate
    /\ rawData[2].line.BeginDate = rawData[3].line.BeginDate
    /\ rawData[2].isNewData
    /\ ~rawData[3].isNewData

\* the processed lines of the given Begin Date
LinesOfDate(positions, date) ==
    { i \in positions : rawData[i].line.BeginDate = date }

(***************************************************************************)
(* C26: after every processed line, the Begin Dates of the processed       *)
(* lines, Update lines included, are the keys of each of updatesByDate,    *)
(* allInstallsByDate, paidInstallsByDate, freeInstallsByDate and           *)
(* proceedsByDate, so the five have one key set; a date without updates    *)
(* has 0 updates, a date without installs has 0 installs of each kind and  *)
(* empty proceeds.                                                         *)
(***************************************************************************)
C26_DatesAreDense ==
    LET dates == { rawData[i].line.BeginDate : i \in Processed }
    IN  /\ DOMAIN self.updatesByDate = dates
        /\ DOMAIN self.allInstallsByDate = dates
        /\ DOMAIN self.paidInstallsByDate = dates
        /\ DOMAIN self.freeInstallsByDate = dates
        /\ DOMAIN self.proceedsByDate = dates
        /\ \A d \in dates :
               /\ LinesOfDate(ProcessedUpdates, d) = {} =>
                      self.updatesByDate[d] = 0
               /\ LinesOfDate(ProcessedSales, d) = {} =>
                      /\ self.allInstallsByDate[d] = 0
                      /\ self.paidInstallsByDate[d] = 0
                      /\ self.freeInstallsByDate[d] = 0
                      /\ self.proceedsByDate[d] = EmptyDict

\* a day with an update only, a day with a paid install only
C26_Witness ==
    /\ pc = "done"
    /\ self.updatesByDate = (1 :> 1 @@ 2 :> 0)
    /\ self.allInstallsByDate = (1 :> 0 @@ 2 :> 1)
    /\ self.paidInstallsByDate = (1 :> 0 @@ 2 :> 1)
    /\ self.freeInstallsByDate = (1 :> 0 @@ 2 :> 0)
    /\ self.proceedsByDate[1] = EmptyDict
    /\ self.proceedsByDate[2] # EmptyDict

\* paid + free = all for every key of the three dictionaries, an absent key
\* counted as 0
PaidPlusFreeIsAll(paid, free, all) ==
    \A k \in DOMAIN paid \cup DOMAIN free \cup DOMAIN all :
        Lookup(paid, k) + Lookup(free, k) = Lookup(all, k)

(***************************************************************************)
(* C27: after every processed line the paid and the free installs add up   *)
(* to all installs: in the totals, for every date, for every country, and  *)
(* in the totals of the new data.                                          *)
(***************************************************************************)
C27_PaidAndFreePartitionAll ==
    /\ self.paidInstallsTotal + self.freeInstallsTotal = self.allInstallsTotal
    /\ PaidPlusFreeIsAll(self.paidInstallsByDate, self.freeInstallsByDate,
                         self.allInstallsByDate)
    /\ PaidPlusFreeIsAll(self.paidInstallsByCountry, self.freeInstallsByCountry,
                         self.allInstallsByCountry)
    /\ self.newPaidInstallsTotal + self.newFreeInstallsTotal =
           self.newAllInstallsTotal

\* paid and free installs and a refund, old and new, in one country
C27_Witness ==
    /\ pc = "done"
    /\ self.paidInstallsTotal = 1
    /\ self.freeInstallsTotal = 1
    /\ self.allInstallsTotal = 2
    /\ self.refundsTotal = 1
    /\ self.newPaidInstallsTotal = 2
    /\ self.newFreeInstallsTotal = 0
    /\ self.paidInstallsByCountry["US"] = 1
    /\ self.freeInstallsByCountry["US"] = 1
    /\ self.allInstallsByCountry["US"] = 2

\* the for loop over the first n tagged lines, stopped by the first line
\* that raises
RECURSIVE Looped(_, _)
Looped(lines, n) ==
    IF n = 0 THEN [raised |-> FALSE, self |-> NewSKUData]
    ELSE LET before == Looped(lines, n - 1)
         IN  IF before.raised THEN before
             ELSE IF LineRaises(before.self, lines[n].line)
             THEN [raised |-> TRUE, self |-> before.self]
             ELSE [raised |-> FALSE,
                   self |-> ProcessLine(before.self, lines[n].isNewData,
                                        lines[n].line)]

\* a constructor call on the given lines: whether it raises, and the object
\* it leaves
Constructed(reportLines) ==
    LET sorted == SortByBeginDate(reportLines)
        looped == Looped(sorted, Len(sorted))
        filled == FillVersions(looped.self)
    IN  IF looped.raised THEN looped
        ELSE IF RetentionRaises(filled) THEN [raised |-> TRUE, self |-> filled]
        ELSE IF LegacyRaises(FormatStrings(filled))
        THEN [raised |-> TRUE, self |-> FormatStrings(filled)]
        ELSE [raised |-> FALSE,
              self |-> GenerateGraphs(LegacyPercentage(FormatStrings(filled)))]

\* the totals, the mappings per version, per date and per country, the
\* versions, the retention and the legacy percentage
OrderFreeFields ==
    {"allInstallsTotal", "paidInstallsTotal", "freeInstallsTotal",
     "refundsTotal", "promoCodesTotal", "proceedsTotal",
     "newPaidInstallsTotal", "newFreeInstallsTotal", "newAllInstallsTotal",
     "newRefundsTotal", "newProceedsTotal", "newUpdatesTotal",
     "newPromoCodesTotal",
     "unitsByVersion", "proceedsByVersion", "updatesByVersion",
     "refundsByVersion", "promoCodesByVersion",
     "paidInstallsByDate", "freeInstallsByDate", "allInstallsByDate",
     "updatesByDate", "proceedsByDate",
     "paidInstallsByCountry", "freeInstallsByCountry", "allInstallsByCountry",
     "newPaidInstallsByCountry", "newFreeInstallsByCountry",
     "newAllInstallsByCountry",
     "versions", "userRetentionByVersion", "numOnOldVersions",
     "legacyUserPercentage"}

Values(s) == [f \in OrderFreeFields |-> s[f]]

\* the batch in every order it can be supplied in
Reordered(reportLines) ==
    { [i \in 1..Len(reportLines) |-> reportLines[p[i]]] :
          p \in Permutations(1..Len(reportLines)) }

\* a constructor call on the other order ends as this one has ended
SameResult(other) ==
    LET result == Constructed(other)
    IN  /\ result.raised = (pc = "failed")
        /\ pc = "done" => Values(result.self) = Values(self)

(***************************************************************************)
(* C28: the totals and the mappings per version, per date and per country, *)
(* the versions, userRetentionByVersion and legacyUserPercentage do not    *)
(* depend on the order of the records: when the constructor has ended, a   *)
(* constructor call on any permutation of the batch ends the same way,     *)
(* with the same values.                                                   *)
(***************************************************************************)
C28_AnyOrderSameValues ==
    pc \in {"done", "failed"} => \A other \in Reordered(rawData) : SameResult(other)

\* the same for the orders that build an object
C28_SameValuesWhereBuilt ==
    pc = "done" =>
        \A other \in Reordered(rawData) :
            ~Constructed(other).raised =>
                Values(Constructed(other).self) = Values(self)

\* an object is built from a line with an Apple Identifier followed by a
\* line of the same day cut short before that column; the call on the lines
\* the other way round raises
C28_OrderDecidesTheRaise ==
    /\ pc = "done"
    /\ Len(rawData) = 2
    /\ rawData[1].line.BeginDate = rawData[2].line.BeginDate
    /\ rawData[1].line.AppleIdentifier = "1002"
    /\ rawData[2].line.AppleIdentifier = None
    /\ Constructed(<<rawData[2], rawData[1]>>).raised

\* the keys SKUData.__init__ reads from every record
KeysRead ==
    {"SKU", "Apple Identifier", "Title", "Begin Date", "Version", "Units",
     "Developer Proceeds (per item)", "Currency Code of Proceeds",
     "Country Code", "Product Type Identifier", "Promo Code"}

(***************************************************************************)
(* C29: every record the parser has appended contains every key the        *)
(* constructor reads, whatever columns the line has and whether or not the *)
(* remapping tables are empty.                                             *)
(***************************************************************************)
C29_RecordsHaveEveryKeyRead ==
    \A i \in 1..Len(data) : KeysRead \subseteq DOMAIN data[i]

\* the record of a line with every column, parsed with no table of
\* countries, has no "Currency Code of Proceeds"
C29_NoCurrencyCodeWithoutCountries ==
    /\ parsing = "parsed"
    /\ fieldRemapper.CountryFromCode = EmptyDict
    /\ Len(reportFileContents) = 2
    /\ Len(reportFileContents[2]) = 21
    /\ reportFileContents[2][14] = "USD"
    /\ Len(data) = 1
    /\ "Currency Code of Proceeds" \notin DOMAIN data[1]
    /\ KeysRead \ {"Currency Code of Proceeds"} \subseteq DOMAIN data[1]

\* with all four tables and all columns, the record has every key
C29_EveryKeyWithTablesAndColumns ==
    \A i \in 1..Len(data) :
        (/\ fieldRemapper.CountryFromCode # EmptyDict
         /\ Len(StripSplit(reportFileContents[i + 1])) >= 14
         /\ reportFileContents[i + 1][14] # "")
        => KeysRead \subseteq DOMAIN data[i]

\* a pass of the loop of downloadDailies in a run without the overwrite flag
DayWithoutOverwrite ==
    /\ position = "day"
    /\ dayOffset < numDaysBack
    /\ ~overwriteExistingData

\* the generator is invoked in this step
Invoked == invoked' # invoked

\* the last answer for the day was "no reports available"
AnsweredNoReports(answers, date) ==
    IF date \in DOMAIN answers THEN answers[date].answer = "none" ELSE FALSE

\* the file of the day is the empty placeholder
IsPlaceholder(files, date) ==
    IF date \in DOMAIN files THEN files[date] = "" ELSE FALSE

(***************************************************************************)
(* C30: in every pass of the loop of a run without the overwrite flag, in  *)
(* the first run and in every later one, the generator is invoked for the  *)
(* day exactly when the base path has no file for it.  When it answers     *)
(* "no reports available" the pass leaves the empty placeholder, sets the  *)
(* placeholder flag and does not add the day to downloadedFiles, so the    *)
(* file is not tagged new; and a day whose last answer was "no reports     *)
(* available" is not asked for again.                                      *)
(***************************************************************************)
C30_PlaceholderEndsTheRequests ==
    [][DayWithoutOverwrite =>
         /\ Invoked <=> requestedDate \notin DOMAIN basePath
         /\ (Invoked /\ AnsweredNoReports(invoked', requestedDate)) =>
              /\ IsPlaceholder(basePath', requestedDate)
              /\ addedPlaceHolderFileForEventlessDay'
              /\ downloadedFiles' = downloadedFiles
              /\ ~IsNewFile(requestedDate)'
         /\ AnsweredNoReports(invoked, requestedDate) => ~Invoked]_vars

\* the second run, a day later and without the overwrite flag, has skipped
\* the day the first run got "no reports available" for, has downloaded the
\* report of the new day and has returned it alone
C30_Witness ==
    /\ run = 2
    /\ position = "returned"
    /\ ~overwriteExistingData
    /\ today = 1
    /\ numDaysBack = 2
    /\ AnsweredNoReports(invoked, 0)
    /\ invoked[0].run = 1
    /\ IsPlaceholder(basePath, 0)
    /\ invoked[1] = [run |-> 2, answer |-> "gz"]
    /\ downloadedFiles = <<1>>
    /\ ~IsNewFile(0)
    /\ ~addedPlaceHolderFileForEventlessDay

====
